---- MODULE Spec2Model ----
(***************************************************************************)
(* Personalised feed engine of music-app-iac.                              *)
(*                                                                         *)
(* The scorer get_feed_albums exists twice: in the calculate_feed lambda   *)
(* (stores the feed) and in the get_feed lambda (returns it).  Both are    *)
(* modelled, statement by statement, as the operator get_feed_albums with  *)
(* a variant argument.                                                     *)
(*                                                                         *)
(* Numbers: Python computes the scores in floating point.  Here a score    *)
(* is the exact rational value, stored as an integer multiplied by SCALE   *)
(* (SCALE is a multiple of every list length a mean is taken over and of   *)
(* 2, for the 0.5 of the diversity penalty).                               *)
(* Time: a datetime is a number of hours; an ISO timestamp is the pair     *)
(* <<day, hour>>.                                                          *)
(* Strings that are lower-cased by the code (genres, target names) or      *)
(* searched in (usernames) are tuples of one-character strings.            *)
(*                                                                         *)
(* The lambda handlers around the scorer (create_rating, add_to_history,   *)
(* registration, create_subscription, start_transcription,                 *)
(* monitor_transcription, calculate_feed, get_feed) are modelled as        *)
(* requests that take one step per table access, so that concurrent        *)
(* requests interleave between their reads and writes.                     *)
(***************************************************************************)
EXTENDS Integers, Sequences, FiniteSets, TLC

VARIABLES subscriptions, ratings, history, albums, content, now, run,
          ratingsTable, usersTable, feedTable, invocations, requests,
          subscriptionsTable, transcriptionsTable, transcriptionJobs,
          transcriptionQueue

\* the state of the request handlers: the Ratings, Users and Feed tables, the
\* queue of asynchronous invocations of the calculate_feed lambda, and the
\* requests in progress
\* the Subscriptions table as create_subscription sees it, with the rows of
\* all users, and the state of the transcription of the uploaded tracks: the
\* Transcriptions table, the jobs of the transcription service and the queue
\* of monitoring messages
moreTables == <<subscriptionsTable, transcriptionsTable, transcriptionJobs,
                transcriptionQueue>>

handlerVars == <<ratingsTable, usersTable, feedTable, invocations, requests,
                 subscriptionsTable, transcriptionsTable, transcriptionJobs,
                 transcriptionQueue>>

vars == <<subscriptions, ratings, history, albums, content, now, run,
          ratingsTable, usersTable, feedTable, invocations, requests,
          subscriptionsTable, transcriptionsTable, transcriptionJobs,
          transcriptionQueue>>

(***************************************************************************)
(* Bounds of the model                                                     *)
(***************************************************************************)
MaxAlbums == 3
MaxTracks == 2
MaxSubs == 2
MaxRatings == 2
MaxHistory == 2
\* the longest history a listener starts from
MaxPlays == 6
\* requests the handlers serve, one after another or at the same time
MaxRequests == 2

(***************************************************************************)
(* Program constants                                                       *)
(***************************************************************************)
ArtistBoost == 50
GenreBoost == 30
RecentDays == 30
RecentWeight == 2
HoursPerDay == 24
MinStars == 1
MaxStars == 5

None == "None"

\* None in the place of a str (a str is a tuple of characters)
NoneStr == <<None>>

(***************************************************************************)
(* Generic helpers: Python dict, list and str operations                   *)
(***************************************************************************)
EmptyDict == [k \in {} |-> 0]

\* dict.get(key, default)
DictGet(d, k, default) == IF k \in DOMAIN d THEN d[k] ELSE default

\* d[key] = value
DictSet(d, k, v) == [x \in (DOMAIN d) \cup {k} |-> IF x = k THEN v ELSE d[x]]

\* record.get(field): None when the key is absent
Get(rec, field) == IF field \in DOMAIN rec THEN rec[field] ELSE None

RECURSIVE Sum(_)
Sum(s) == IF Len(s) = 0 THEN 0 ELSE Head(s) + Sum(Tail(s))

Min(a, b) == IF a <= b THEN a ELSE b

Max(a, b) == IF a >= b THEN a ELSE b

RECURSIVE Factorial(_)
Factorial(n) == IF n <= 1 THEN 1 ELSE n * Factorial(n - 1)

\* common denominator of all scores
SCALE == 2 * Factorial(MaxTracks)

UpperCase == <<"A","B","C","D","E","F","G","H","I","J","K","L","M",
               "N","O","P","Q","R","S","T","U","V","W","X","Y","Z">>

LowerCase == <<"a","b","c","d","e","f","g","h","i","j","k","l","m",
               "n","o","p","q","r","s","t","u","v","w","x","y","z">>

LowerChar(c) ==
    IF \E i \in 1..26 : UpperCase[i] = c
    THEN LowerCase[CHOOSE i \in 1..26 : UpperCase[i] = c]
    ELSE c

\* str.lower()
Lower(s) == [i \in 1..Len(s) |-> LowerChar(s[i])]

(***************************************************************************)
(* Time                                                                    *)
(***************************************************************************)
\* datetime.isoformat()
IsoFormat(t) == <<t \div HoursPerDay, t % HoursPerDay>>

\* datetime.fromisoformat()
FromIsoFormat(ts) == ts[1] * HoursPerDay + ts[2]

\* datetime.hour
Hour(t) == t % HoursPerDay

\* timedelta(days=30)
RecentWindow == RecentDays * HoursPerDay

(***************************************************************************)
(* Step 1: subscription boost (calculate_feed 68-79, get_feed 72-85)       *)
(***************************************************************************)
\* the genre test without the lower() calls
SubscriptionMatchesCaseSensitive(sub, album) ==
    IF sub.subscriptionType = "ARTIST"
    THEN album.artistId = Get(sub, "artistId")
    ELSE album.genre = sub.targetName

\* the test of the inner loop: "album['artistId'] == sub.get('artistId')" for
\* an ARTIST subscription, "album['genre'].lower() == sub['targetName'].lower()"
\* for a GENRE subscription
SubscriptionMatches(sub, album) ==
    IF sub.subscriptionType = "ARTIST"
    THEN album.artistId = Get(sub, "artistId")
    ELSE Lower(album.genre) = Lower(sub.targetName)

\* the amount one matching subscription adds
BoostOf(sub) == IF sub.subscriptionType = "ARTIST" THEN ArtistBoost ELSE GenreBoost

RECURSIVE BoostAlbums(_, _, _, _)
\* the inner "for album in albums" of one subscription
BoostAlbums(boost, sub, albs, j) ==
    IF j > Len(albs) THEN boost
    ELSE LET album == albs[j]
         IN  BoostAlbums(IF SubscriptionMatches(sub, album)
                         THEN DictSet(boost, album.albumId,
                                      DictGet(boost, album.albumId, 0) + BoostOf(sub))
                         ELSE boost,
                         sub, albs, j + 1)

RECURSIVE SubscriptionBoost(_, _, _, _)
\* the outer "for sub in subscriptions"
SubscriptionBoost(boost, subs, albs, i) ==
    IF i > Len(subs) THEN boost
    ELSE SubscriptionBoost(
            IF subs[i].subscriptionType \in {"ARTIST", "GENRE"}
            THEN BoostAlbums(boost, subs[i], albs, 1)
            ELSE boost,
            subs, albs, i + 1)

(***************************************************************************)
(* Step 2: ratings (calculate_feed 81-107, get_feed 88-115)                *)
(***************************************************************************)
RECURSIVE SongRatings(_, _, _)
\* {rating['songId']: int(rating['stars']) for rating in ratings}: last wins
SongRatings(d, rs, i) ==
    IF i > Len(rs) THEN d
    ELSE SongRatings(DictSet(d, rs[i].songId, rs[i].stars), rs, i + 1)

\* the songs of one album the loop iterates over.  calculate_feed filters the
\* content list by albumId; get_feed calls .get(albumId, []) on the response
\* dict {'statusCode', 'body'} that its _get_all_content returns, which has
\* no album id among its keys.
SongsOfAlbum(variant, cont, album) ==
    IF variant = "calculate_feed"
    THEN SelectSeq(cont, LAMBDA item : Get(item, "albumId") = album.albumId)
    ELSE << >>

\* album_song_ratings of one album
AlbumSongRatings(variant, cont, song_ratings, album) ==
    LET rated == SelectSeq(SongsOfAlbum(variant, cont, album),
                           LAMBDA song : song.contentId \in DOMAIN song_ratings)
    IN  [k \in 1..Len(rated) |-> song_ratings[rated[k].contentId]]

RECURSIVE Affinity(_, _, _, _, _, _, _)
\* genre_affinity (field = "genre") or artist_affinity (field = "artistId"):
\* a dict of lists, appended to album by album
Affinity(aff, field, variant, cont, song_ratings, albs, j) ==
    IF j > Len(albs) THEN aff
    ELSE LET album == albs[j]
             rs == AlbumSongRatings(variant, cont, song_ratings, album)
             key == album[field]
         IN  Affinity(IF Len(rs) = 0 THEN aff
                      ELSE DictSet(aff, key, DictGet(aff, key, << >>) \o rs),
                      field, variant, cont, song_ratings, albs, j + 1)

\* sum(l) / len(l), kept exact as the pair <<sum, len>>
Mean(l) == <<Sum(l), Len(l)>>

\* album_ratings: the "if album_song_ratings:" stands after the loop over the
\* albums, so it sees the loop variables of the last iteration only
AlbumRatings(variant, cont, song_ratings, albs) ==
    LET album == albs[Len(albs)]
        album_song_ratings == AlbumSongRatings(variant, cont, song_ratings, album)
    IN  IF Len(album_song_ratings) > 0
        THEN DictSet(EmptyDict, album.albumId, Mean(album_song_ratings))
        ELSE EmptyDict

\* avg_genre_ratings / avg_artist_ratings
Averages(aff) == [k \in DOMAIN aff |-> Mean(aff[k])]

(***************************************************************************)
(* Step 3: listening history (calculate_feed 111-136, get_feed 119-148)    *)
(***************************************************************************)
\* Counter()[key] += n
CounterAdd(c, k, n) == DictSet(c, k, DictGet(c, k, 0) + n)

NoCounters ==
    [genre_frequency |-> EmptyDict, artist_frequency |-> EmptyDict,
     recent_genre_frequency |-> EmptyDict, recent_artist_frequency |-> EmptyDict,
     hourly_genre_preferences |-> EmptyDict]

\* the loop body with "timestamp > recent_threshold"
HistoryEntryStrict(c, entry, t) ==
    LET timestamp == FromIsoFormat(entry.timestamp)
        genre == entry.genre
        artist == entry.artist
        recent == timestamp > t - RecentWindow
        hour == Hour(timestamp)
    IN  [genre_frequency |-> CounterAdd(c.genre_frequency, genre, 1),
         artist_frequency |-> CounterAdd(c.artist_frequency, artist, 1),
         recent_genre_frequency |->
            IF recent THEN CounterAdd(c.recent_genre_frequency, genre, RecentWeight)
            ELSE c.recent_genre_frequency,
         recent_artist_frequency |->
            IF recent THEN CounterAdd(c.recent_artist_frequency, artist, RecentWeight)
            ELSE c.recent_artist_frequency,
         hourly_genre_preferences |->
            DictSet(c.hourly_genre_preferences, hour,
                    CounterAdd(DictGet(c.hourly_genre_preferences, hour, EmptyDict),
                               genre, 1))]

\* the loop body counting a recent entry into the recent counters without
\* the test on the timestamp
HistoryEntryAllRecent(c, entry, t) ==
    LET timestamp == FromIsoFormat(entry.timestamp)
        genre == entry.genre
        artist == entry.artist
        hour == Hour(timestamp)
    IN  [genre_frequency |-> CounterAdd(c.genre_frequency, genre, 1),
         artist_frequency |-> CounterAdd(c.artist_frequency, artist, 1),
         recent_genre_frequency |-> CounterAdd(c.recent_genre_frequency, genre, RecentWeight),
         recent_artist_frequency |-> CounterAdd(c.recent_artist_frequency, artist, RecentWeight),
         hourly_genre_preferences |->
            DictSet(c.hourly_genre_preferences, hour,
                    CounterAdd(DictGet(c.hourly_genre_preferences, hour, EmptyDict),
                               genre, 1))]

\* one iteration of "for entry in history"
HistoryEntry(c, entry, t) ==
    LET timestamp == FromIsoFormat(entry.timestamp)
        genre == entry.genre
        artist == entry.artist
        recent == timestamp >= t - RecentWindow
        hour == Hour(timestamp)
    IN  [genre_frequency |-> CounterAdd(c.genre_frequency, genre, 1),
         artist_frequency |-> CounterAdd(c.artist_frequency, artist, 1),
         recent_genre_frequency |->
            IF recent THEN CounterAdd(c.recent_genre_frequency, genre, RecentWeight)
            ELSE c.recent_genre_frequency,
         recent_artist_frequency |->
            IF recent THEN CounterAdd(c.recent_artist_frequency, artist, RecentWeight)
            ELSE c.recent_artist_frequency,
         hourly_genre_preferences |->
            DictSet(c.hourly_genre_preferences, hour,
                    CounterAdd(DictGet(c.hourly_genre_preferences, hour, EmptyDict),
                               genre, 1))]

RECURSIVE HistoryPass(_, _, _, _)
HistoryPass(c, hist, t, i) ==
    IF i > Len(hist) THEN c
    ELSE HistoryPass(HistoryEntry(c, hist[i], t), hist, t, i + 1)

(***************************************************************************)
(* Step 4: the score of one album (calculate_feed 142-191, get_feed        *)
(* 155-216).  Every term is SCALE times the value the code adds.           *)
(***************************************************************************)
\* (mean - 3) * weight, for a mean <<sum, len>>
AboveThree(m, weight) == ((m[1] - 3 * m[2]) * weight * SCALE) \div m[2]

\* (3 - mean) * weight
BelowThree(m, weight) == ((3 * m[2] - m[1]) * weight * SCALE) \div m[2]

\* "if album_id in album_ratings": >= 4 adds, <= 2 subtracts
AlbumRatingTerm(album_ratings, album_id) ==
    IF album_id \in DOMAIN album_ratings
    THEN LET album_rating == album_ratings[album_id]
         IN  IF album_rating[1] >= 4 * album_rating[2] THEN AboveThree(album_rating, 20)
             ELSE IF album_rating[1] <= 2 * album_rating[2] THEN 0 - BelowThree(album_rating, 15)
             ELSE 0
    ELSE 0

\* "if genre in avg_genre_ratings": >= 3.5 adds, <= 2.5 subtracts
GenreRatingTerm(avg_genre_ratings, genre) ==
    IF genre \in DOMAIN avg_genre_ratings
    THEN LET genre_rating == avg_genre_ratings[genre]
         IN  IF 2 * genre_rating[1] >= 7 * genre_rating[2] THEN AboveThree(genre_rating, 15)
             ELSE IF 2 * genre_rating[1] <= 5 * genre_rating[2] THEN 0 - BelowThree(genre_rating, 10)
             ELSE 0
    ELSE 0

\* "if artist_id in avg_artist_ratings": >= 3.5 adds, <= 2.5 subtracts
ArtistRatingTerm(avg_artist_ratings, artist_id) ==
    IF artist_id \in DOMAIN avg_artist_ratings
    THEN LET artist_rating == avg_artist_ratings[artist_id]
         IN  IF 2 * artist_rating[1] >= 7 * artist_rating[2] THEN AboveThree(artist_rating, 25)
             ELSE IF 2 * artist_rating[1] <= 5 * artist_rating[2] THEN 0 - BelowThree(artist_rating, 15)
             ELSE 0
    ELSE 0

\* genre_frequency.get(genre, 0) + recent_genre_frequency.get(genre, 0)
TotalGenrePlays(c, genre) ==
    DictGet(c.genre_frequency, genre, 0) + DictGet(c.recent_genre_frequency, genre, 0)

\* the plays counted without the caps of 30 and 40
FrequencyTermUncapped(c, genre, artist_id) ==
    LET total_genre_plays == TotalGenrePlays(c, genre)
        total_artist_plays == DictGet(c.artist_frequency, artist_id, 0)
                              + DictGet(c.recent_artist_frequency, artist_id, 0)
    IN  SCALE * (total_genre_plays * 2 + total_artist_plays * 3)

\* min(total_genre_plays * 2, 30) + min(total_artist_plays * 3, 40)
FrequencyTerm(c, genre, artist_id) ==
    LET total_genre_plays == TotalGenrePlays(c, genre)
        total_artist_plays == DictGet(c.artist_frequency, artist_id, 0)
                              + DictGet(c.recent_artist_frequency, artist_id, 0)
    IN  SCALE * (Min(total_genre_plays * 2, 30) + Min(total_artist_plays * 3, 40))

\* "if genre in hourly_genre_preferences.get(current_hour, {})"
HourTerm(c, genre, current_hour) ==
    LET table == DictGet(c.hourly_genre_preferences, current_hour, EmptyDict)
    IN  IF genre \in DOMAIN table THEN SCALE * Min(table[genre] * 5, 25) ELSE 0

\* the bonus granted also when the recent counter equals 0.3 times the count
TrendTermOrEqual(c, genre) ==
    IF 10 * DictGet(c.recent_genre_frequency, genre, 0) >= 3 * DictGet(c.genre_frequency, genre, 0)
    THEN SCALE * 15 ELSE 0

\* "if recent_genre_frequency[genre] > genre_frequency[genre] * 0.3"
TrendTerm(c, genre) ==
    IF 10 * DictGet(c.recent_genre_frequency, genre, 0) > 3 * DictGet(c.genre_frequency, genre, 0)
    THEN SCALE * 15 ELSE 0

\* "if genre in avg_genre_ratings and avg_genre_ratings[genre] < 2"
AversionTerm(avg_genre_ratings, genre) ==
    IF genre \in DOMAIN avg_genre_ratings
       /\ avg_genre_ratings[genre][1] < 2 * avg_genre_ratings[genre][2]
    THEN 0 - SCALE * 20 ELSE 0

\* the local variables of one scoring run that the score loop reads
Locals(variant, subs, rs, hist, albs, cont, t) ==
    LET song_ratings == SongRatings(EmptyDict, rs, 1)
    IN  [subscription_boost |-> SubscriptionBoost(EmptyDict, subs, albs, 1),
         album_ratings |-> AlbumRatings(variant, cont, song_ratings, albs),
         avg_genre_ratings |->
            Averages(Affinity(EmptyDict, "genre", variant, cont, song_ratings, albs, 1)),
         avg_artist_ratings |->
            Averages(Affinity(EmptyDict, "artistId", variant, cont, song_ratings, albs, 1)),
         counters |-> HistoryPass(NoCounters, hist, t, 1),
         current_hour |-> Hour(t)]

\* the get_feed score floored at zero without the diversity penalty
ScoreWithoutPenalty(variant, l, album) ==
    LET album_id == album.albumId
        genre == album.genre
        artist_id == album.artistId
        raw == SCALE * DictGet(l.subscription_boost, album_id, 0)
               + AlbumRatingTerm(l.album_ratings, album_id)
               + GenreRatingTerm(l.avg_genre_ratings, genre)
               + ArtistRatingTerm(l.avg_artist_ratings, artist_id)
               + FrequencyTerm(l.counters, genre, artist_id)
               + HourTerm(l.counters, genre, l.current_hour)
               + TrendTerm(l.counters, genre)
               + AversionTerm(l.avg_genre_ratings, genre)
        \* get_feed only: min(total_genre_plays * 0.5, 10)
        diversity_penalty == Min((TotalGenrePlays(l.counters, genre) * SCALE) \div 2, 10 * SCALE)
    IN  IF variant = "calculate_feed" THEN raw
        ELSE Max(raw, 0)

\* the body of "for album in albums": the value of score at the end of it
Score(variant, l, album) ==
    LET album_id == album.albumId
        genre == album.genre
        artist_id == album.artistId
        raw == SCALE * DictGet(l.subscription_boost, album_id, 0)
               + AlbumRatingTerm(l.album_ratings, album_id)
               + GenreRatingTerm(l.avg_genre_ratings, genre)
               + ArtistRatingTerm(l.avg_artist_ratings, artist_id)
               + FrequencyTerm(l.counters, genre, artist_id)
               + HourTerm(l.counters, genre, l.current_hour)
               + TrendTerm(l.counters, genre)
               + AversionTerm(l.avg_genre_ratings, genre)
        \* get_feed only: min(total_genre_plays * 0.5, 10)
        diversity_penalty == Min((TotalGenrePlays(l.counters, genre) * SCALE) \div 2, 10 * SCALE)
    IN  IF variant = "calculate_feed" THEN raw
        ELSE Max(Max(raw - diversity_penalty, 0), 0)

RECURSIVE AlbumScores(_, _, _, _, _)
\* album_scores[album_id] = score, album by album
AlbumScores(d, variant, l, albs, j) ==
    IF j > Len(albs) THEN d
    ELSE AlbumScores(DictSet(d, albs[j].albumId, Score(variant, l, albs[j])),
                     variant, l, albs, j + 1)

\* album['stats']['score'] = score: calculate_feed writes the score into the
\* album record; get_feed does not
ScoredAlbums(variant, l, albs) ==
    IF variant = "calculate_feed"
    THEN [j \in 1..Len(albs) |->
            [albs[j] EXCEPT !.stats = [score |-> Score(variant, l, albs[j])]]]
    ELSE albs

(***************************************************************************)
(* Step 5: sorted(albums, key=album_scores.get(albumId, 0), reverse=True)  *)
(***************************************************************************)
\* a sort key that looks the album up by a field the records do not have
SortKeyById(album_scores, album) == DictGet(album_scores, Get(album, "id"), 0)

SortKey(album_scores, album) == DictGet(album_scores, album.albumId, 0)

\* reverse=True forgotten: ascending order
InsertAscending(sorted, album, album_scores) ==
    LET n == Cardinality({p \in 1..Len(sorted) :
                 SortKey(album_scores, sorted[p]) <= SortKey(album_scores, album)})
    IN  SubSeq(sorted, 1, n) \o <<album>> \o SubSeq(sorted, n + 1, Len(sorted))

\* ranking through a dict keyed by score: an album replaces one of equal score
InsertKeyedByScore(sorted, album, album_scores) ==
    LET others == SelectSeq(sorted, LAMBDA a :
                      SortKey(album_scores, a) # SortKey(album_scores, album))
        n == Cardinality({p \in 1..Len(others) :
                 SortKey(album_scores, others[p]) >= SortKey(album_scores, album)})
    IN  SubSeq(others, 1, n) \o <<album>> \o SubSeq(others, n + 1, Len(others))

\* insert album behind every element whose key is not smaller: the sort is
\* stable and reverse=True keeps the original order of equal keys
InsertDescending(sorted, album, album_scores) ==
    LET n == Cardinality({p \in 1..Len(sorted) :
                 SortKey(album_scores, sorted[p]) >= SortKey(album_scores, album)})
    IN  SubSeq(sorted, 1, n) \o <<album>> \o SubSeq(sorted, n + 1, Len(sorted))

RECURSIVE SortedAlbums(_, _, _, _)
SortedAlbums(sorted, albs, album_scores, j) ==
    IF j > Len(albs) THEN sorted
    ELSE SortedAlbums(InsertDescending(sorted, albs[j], album_scores),
                      albs, album_scores, j + 1)

(***************************************************************************)
(* The signal collector's projections                                      *)
(***************************************************************************)
\* transform_album_for_response: calculate_feed adds 'stats': {'score': 0}
transform_album_for_response(variant, item) ==
    IF variant = "calculate_feed"
    THEN [albumId |-> item.albumId, artistId |-> item.artistId, genre |-> item.genre,
          stats |-> [score |-> 0]]
    ELSE [albumId |-> item.albumId, artistId |-> item.artistId, genre |-> item.genre]

get_all_albums(variant, table) ==
    [j \in 1..Len(table) |-> transform_album_for_response(variant, table[j])]

\* transform_subscription_for_response: the fields a subscription reaches
\* the scorer with
transform_subscription_for_response(item) ==
    [subscriptionType |-> item.subscriptionType,
     targetId |-> item.targetId,
     targetName |-> item.targetName]

get_subscriptions(table) ==
    [i \in 1..Len(table) |-> transform_subscription_for_response(table[i])]

(***************************************************************************)
(* get_feed_albums                                                         *)
(***************************************************************************)
\* The statement after the rating loop reads album_song_ratings, which is
\* bound only by the loop body: with no album it raises UnboundLocalError
\* In the subscription loop a GENRE subscription calls album['genre'].lower()
\* on every album: AttributeError for an album without genre.
Raises(subs, albs) ==
    \/ \E i \in 1..Len(subs), j \in 1..Len(albs) :
          subs[i].subscriptionType = "GENRE" /\ albs[j].genre = NoneStr
    \/ Len(albs) = 0

\* the result of a call: the returned list (feed) and, in albums, the
\* caller's album list as the call leaves it
get_feed_albums(variant, subs, rs, hist, albs, cont, t) ==
    IF Raises(subs, albs)
    THEN [status |-> "error", variant |-> variant, albums |-> albs]
    ELSE LET l == Locals(variant, subs, rs, hist, albs, cont, t)
             album_scores == AlbumScores(EmptyDict, variant, l, albs, 1)
         IN  [status |-> "ok", variant |-> variant,
              locals |-> l,
              album_scores |-> album_scores,
              albums |-> ScoredAlbums(variant, l, albs),
              feed |-> SortedAlbums(<< >>, ScoredAlbums(variant, l, albs), album_scores, 1)]

(***************************************************************************)
(* The world the scorer runs in: the tables its collector reads            *)
(***************************************************************************)
rock == <<"r", "o", "c", "k">>

jazz == <<"j", "a", "z", "z">>

\* albums of the Albums table: AL1 and AL3 are by the same artist, AL2 and
\* AL3 of the same genre
AlbumPool ==
    {[albumId |-> "AL1", artistId |-> "A1", genre |-> rock],
     [albumId |-> "AL2", artistId |-> "A2", genre |-> jazz],
     [albumId |-> "AL3", artistId |-> "A1", genre |-> jazz]}

\* items of the MusicContent table
TrackPool ==
    <<[contentId |-> "S1", albumId |-> "AL1", artistId |-> "A1", genre |-> rock],
      [contentId |-> "S2", albumId |-> "AL1", artistId |-> "A1", genre |-> rock],
      [contentId |-> "S3", albumId |-> "AL2", artistId |-> "A2", genre |-> jazz]>>

\* what a user can subscribe to
SubPool ==
    {[subscriptionType |-> "ARTIST", targetId |-> "A1", targetName |-> <<"A", "n", "a">>],
     [subscriptionType |-> "ARTIST", targetId |-> "A2", targetName |-> <<"B", "o", "b">>],
     [subscriptionType |-> "GENRE", targetId |-> None, targetName |-> <<"R", "o", "c", "k">>],
     [subscriptionType |-> "GENRE", targetId |-> None, targetName |-> <<"R", "O", "C", "K">>],
     [subscriptionType |-> "GENRE", targetId |-> None, targetName |-> jazz]}

\* the times a scoring run or a play can happen at: day 0, 20 days later,
\* 30 days later (an entry of day 0 is then exactly on the recency
\* threshold) and one hour after that
Instants == {0, 20 * HoursPerDay, RecentDays * HoursPerDay, RecentDays * HoursPerDay + 1}

Injective(s) == \A i, j \in DOMAIN s : s[i] = s[j] => i = j

\* the active albums in scan order: album ids are the table's key
Catalogs ==
    {s \in UNION {[1..n -> AlbumPool] : n \in 0..MaxAlbums} : Injective(s)}

Contents ==
    {SelectSeq(TrackPool, LAMBDA item : item.contentId \in ids) :
        ids \in {c \in SUBSET {"S1", "S2", "S3"} : Cardinality(c) <= MaxTracks}}

\* run holds the latest scoring run, inputs and result, for as long as the
\* signals and the time it was made with are the current ones
NoRun == [out |-> [status |-> "none"]]

(***************************************************************************)
(* The world of the request handlers                                       *)
(***************************************************************************)
\* usernames are strings the Ratings scan searches in: "an" occurs in "ana"
an == <<"a", "n">>

ana == <<"a", "n", "a">>

Users == {an, ana}

\* the default of authorizer.get('username', {}): an empty dict, which is no
\* string and equals no username
EmptyMap == <<"{}">>

\* the user the subscriptions, ratings and history variables belong to
Owner == ana

Requests == 1..MaxRequests

\* a request slot no handler runs in
Idle == [handler |-> "none", pc |-> "idle"]

\* requests are numbered in the order the handlers start on them
Arrives(r) == requests[r] = Idle /\ \A q \in 1..(r - 1) : requests[q] # Idle

\* a key no item is stored under, in the Users and in the Feed table
NoUserItem == [exists |-> FALSE, llisteningHistory |-> << >>]

NoFeedItem == [exists |-> FALSE, feed |-> << >>]

\* no handler has run: empty tables, nothing queued, nothing in progress
\* the tracks uploaded for transcription
Uploads == {"S1"}

\* no row of the Transcriptions table under a contentId
NoTranscription ==
    [exists |-> FALSE, status |-> "NONE", retryCount |-> 0, jobName |-> <<"none", 0>>]

\* no subscription stored, nothing uploaded for transcription
MoreTablesIdle ==
    /\ subscriptionsTable = << >>
    /\ transcriptionsTable = [c \in Uploads |-> NoTranscription]
    /\ transcriptionJobs = << >>
    /\ transcriptionQueue = << >>

HandlersIdle ==
    /\ ratingsTable = << >>
    /\ usersTable = [u \in Users |-> NoUserItem]
    /\ feedTable = [u \in Users |-> NoFeedItem]
    /\ invocations = << >>
    /\ requests = [r \in Requests |-> Idle]
    /\ MoreTablesIdle

(***************************************************************************)
(* Operations                                                              *)
(***************************************************************************)
\* store_subscription: a subscription of the same type and target name is
\* not stored a second time
Subscribe(item) ==
    /\ Len(subscriptions) < MaxSubs
    /\ \A i \in 1..Len(subscriptions) :
          ~ (subscriptions[i].targetName = item.targetName
             /\ subscriptions[i].subscriptionType = item.subscriptionType)
    /\ subscriptions' = Append(subscriptions, item)
    /\ run' = NoRun
    /\ UNCHANGED <<ratings, history, albums, content, now>>
    /\ UNCHANGED handlerVars

\* store_rating: one rating per song
Rate(songId, stars) ==
    /\ Len(ratings) < MaxRatings
    /\ \A i \in 1..Len(ratings) : ratings[i].songId # songId
    /\ ratings' = Append(ratings, [songId |-> songId, stars |-> stars])
    /\ run' = NoRun
    /\ UNCHANGED <<subscriptions, history, albums, content, now>>
    /\ UNCHANGED handlerVars

\* add_to_history: the entry takes genre and artist of the content item and
\* the current time
Play(item) ==
    /\ Len(history) < MaxHistory
    /\ history' = Append(history, [genre |-> item.genre, artist |-> item.artistId,
                                   timestamp |-> IsoFormat(now)])
    /\ run' = NoRun
    /\ UNCHANGED <<subscriptions, ratings, albums, content, now>>
    /\ UNCHANGED handlerVars

\* time passes
Tick(t) ==
    /\ t > now
    /\ now' = t
    /\ run' = NoRun
    /\ UNCHANGED <<subscriptions, ratings, history, albums, content>>
    /\ UNCHANGED handlerVars

\* one scoring run: the handler collects the signals and calls get_feed_albums
ScoringRun(variant) ==
    [inputs |-> [subscriptions |-> get_subscriptions(subscriptions), ratings |-> ratings,
                 history |-> history, albums |-> get_all_albums(variant, albums),
                 content |-> content, now |-> now],
     out |-> get_feed_albums(variant, get_subscriptions(subscriptions), ratings, history,
                             get_all_albums(variant, albums), content, now)]

CalculateFeed ==
    /\ run' = ScoringRun("calculate_feed")
    /\ UNCHANGED <<subscriptions, ratings, history, albums, content, now>>
    /\ UNCHANGED moreTables
    /\ UNCHANGED handlerVars

GetFeed ==
    /\ run' = ScoringRun("get_feed")
    /\ UNCHANGED <<subscriptions, ratings, history, albums, content, now>>
    /\ UNCHANGED moreTables
    /\ UNCHANGED handlerVars

(***************************************************************************)
(* create_rating: the handler and store_rating, one step per table access  *)
(***************************************************************************)
\* the stars a client can send: the range 1..5 and one below and above it
StarInputs == {MinStars - 1, MinStars, MaxStars, MaxStars + 1}

\* the create_rating requests the API passes on
RatingEvents ==
    {[username |-> u, hasBody |-> TRUE, songId |-> "S1", stars |-> n] :
        u \in Users, n \in StarInputs}
    \cup {[username |-> u, hasBody |-> FALSE] : u \in Users}

\* create_rating_record; the request number stands for the uuid4
create_rating_record(rating_id, event) ==
    [ratingId |-> rating_id, songId |-> event.songId, username |-> event.username,
     stars |-> event.stars, timestamp |-> IsoFormat(now)]

\* handler, up to the call of store_rating: the test of the stars builds an
\* error response and drops it, the handler goes on
CreateRating(r, event) ==
    /\ Arrives(r)
    /\ requests' = [requests EXCEPT ![r] =
          IF ~ event.hasBody
          THEN [handler |-> "create_rating", pc |-> "done", event |-> event,
                statusCode |-> 400]
          ELSE [handler |-> "create_rating", pc |-> "scan", event |-> event,
                statusCode |-> 0, rating_data |-> create_rating_record(r, event)]]
    /\ UNCHANGED <<subscriptions, ratings, history, albums, content, now, run>>
    /\ UNCHANGED moreTables
    /\ UNCHANGED <<ratingsTable, usersTable, feedTable, invocations>>

\* the rows the duplicate check of store_rating finds
DuplicateRatings(table, rating_data) ==
    SelectSeq(table, LAMBDA item : /\ item.username = rating_data.username
                                   /\ item.songId = rating_data.songId)

\* store_rating, the scan: a row found raises ValueError, which the first
\* "except Exception" re-raises and the handler answers with 500
StoreRatingScan(r) ==
    /\ requests[r].handler = "create_rating"
    /\ requests[r].pc = "scan"
    /\ requests' = [requests EXCEPT ![r] =
          IF Len(DuplicateRatings(ratingsTable, requests[r].rating_data)) > 0
          THEN [@ EXCEPT !.pc = "done", !.statusCode = 500]
          ELSE [@ EXCEPT !.pc = "put_item"]]
    /\ UNCHANGED <<subscriptions, ratings, history, albums, content, now, run>>
    /\ UNCHANGED moreTables
    /\ UNCHANGED <<ratingsTable, usersTable, feedTable, invocations>>

\* store_rating, the put_item under the new ratingId, and the 201 of the
\* handler
StoreRatingPut(r) ==
    /\ requests[r].handler = "create_rating"
    /\ requests[r].pc = "put_item"
    /\ ratingsTable' = Append(ratingsTable, requests[r].rating_data)
    /\ requests' = [requests EXCEPT ![r] = [@ EXCEPT !.pc = "done", !.statusCode = 201]]
    /\ UNCHANGED <<subscriptions, ratings, history, albums, content, now, run>>
    /\ UNCHANGED moreTables
    /\ UNCHANGED <<usersTable, feedTable, invocations>>

(***************************************************************************)
(* create_subscription (create_subscription/index.py)                      *)
(***************************************************************************)
\* the create_subscription requests the API passes on: the username is a
\* field of the body
SubscriptionEvents ==
    {[hasBody |-> TRUE, username |-> u, subscriptionType |-> sub.subscriptionType,
      targetId |-> sub.targetId, targetName |-> sub.targetName] :
        u \in Users, sub \in {s \in SubPool : s.targetName \in {<<"A", "n", "a">>, jazz}}}
    \cup {[hasBody |-> FALSE]}

\* create_subscription_record; the request number stands for the uuid4
create_subscription_record(subscription_id, event) ==
    [subscriptionId |-> subscription_id, username |-> event.username,
     subscriptionType |-> event.subscriptionType, targetId |-> event.targetId,
     targetName |-> event.targetName, timestamp |-> IsoFormat(now)]

\* handler, up to the call of store_subscription
CreateSubscription(r, event) ==
    /\ Arrives(r)
    /\ requests' = [requests EXCEPT ![r] =
          IF ~ event.hasBody
          THEN [handler |-> "create_subscription", pc |-> "done", event |-> event,
                statusCode |-> 400]
          ELSE [handler |-> "create_subscription", pc |-> "scan", event |-> event,
                statusCode |-> 0,
                subscription_data |-> create_subscription_record(r, event)]]
    /\ UNCHANGED <<subscriptions, ratings, history, albums, content, now, run>>
    /\ UNCHANGED <<ratingsTable, usersTable, feedTable, invocations>>
    /\ UNCHANGED moreTables

\* the rows the duplicate check of store_subscription finds
DuplicateSubscriptions(table, subscription_data) ==
    SelectSeq(table, LAMBDA item : /\ item.username = subscription_data.username
                                   /\ item.targetName = subscription_data.targetName
                                   /\ item.subscriptionType = subscription_data.subscriptionType)

\* store_subscription, the scan: for a row found it returns an error response
\* to the handler, which does not look at it and answers 201
StoreSubscriptionScan(r) ==
    /\ requests[r].handler = "create_subscription"
    /\ requests[r].pc = "scan"
    /\ requests' = [requests EXCEPT ![r] =
          IF Len(DuplicateSubscriptions(subscriptionsTable, requests[r].subscription_data)) > 0
          THEN [@ EXCEPT !.pc = "done", !.statusCode = 201]
          ELSE [@ EXCEPT !.pc = "put_item"]]
    /\ UNCHANGED <<subscriptions, ratings, history, albums, content, now, run>>
    /\ UNCHANGED <<ratingsTable, usersTable, feedTable, invocations>>
    /\ UNCHANGED moreTables

\* store_subscription, the put_item under the new subscriptionId, and the
\* 201 of the handler
StoreSubscriptionPut(r) ==
    /\ requests[r].handler = "create_subscription"
    /\ requests[r].pc = "put_item"
    /\ subscriptionsTable' = Append(subscriptionsTable, requests[r].subscription_data)
    /\ requests' = [requests EXCEPT ![r] = [@ EXCEPT !.pc = "done", !.statusCode = 201]]
    /\ UNCHANGED <<subscriptions, ratings, history, albums, content, now, run>>
    /\ UNCHANGED <<ratingsTable, usersTable, feedTable, invocations>>
    /\ UNCHANGED <<transcriptionsTable, transcriptionJobs, transcriptionQueue>>

(***************************************************************************)
(* The handlers of calculate_feed and get_feed, one step per table access  *)
(***************************************************************************)
\* an API request: the authorizer passes the username of the caller on
ApiEvent(u) == [requestContext |-> [authorizer |-> [username |-> u]]]

\* the payload trigger_feed_calculation invokes calculate_feed with
TriggerPayload(u, action) ==
    [username |-> u, action |-> action, timestamp |-> IsoFormat(now)]

\* event.get('requestContext', {}).get('authorizer', {}).get('username', {})
Username(event) ==
    IF "requestContext" \in DOMAIN event
    THEN event.requestContext.authorizer.username
    ELSE EmptyMap

\* the handler starts: it reads the username and goes on to get_subscriptions
Started(handler, event) ==
    [handler |-> handler, pc |-> "get_subscriptions", event |-> event,
     username |-> Username(event), failed |-> "none", statusCode |-> 0,
     body |-> [kind |-> "none"],
     subscriptions |-> << >>, ratings |-> << >>, history |-> << >>, albums |-> << >>,
     content |-> [kind |-> "none"], out |-> [status |-> "none"], stored |-> FALSE]

\* an exception reaches the "except Exception" of the handler: 500
Abort(req) ==
    [req EXCEPT !.pc = "done", !.statusCode = 500, !.body = [kind |-> "error"]]

\* a request of a logged-in user to one of the two lambdas
Request(r, handler, u) ==
    /\ Arrives(r)
    /\ usersTable[u].exists
    /\ requests' = [requests EXCEPT ![r] = Started(handler, ApiEvent(u))]
    /\ UNCHANGED <<subscriptions, ratings, history, albums, content, now, run>>
    /\ UNCHANGED moreTables
    /\ UNCHANGED <<ratingsTable, usersTable, feedTable, invocations>>

\* Lambda delivers a queued asynchronous invocation to calculate_feed
InvokeAsync(r, k) ==
    /\ Arrives(r)
    /\ k \in 1..Len(invocations)
    /\ requests' = [requests EXCEPT ![r] = Started("calculate_feed", invocations[k])]
    /\ invocations' = SubSeq(invocations, 1, k - 1)
                      \o SubSeq(invocations, k + 1, Len(invocations))
    /\ UNCHANGED <<subscriptions, ratings, history, albums, content, now, run>>
    /\ UNCHANGED moreTables
    /\ UNCHANGED <<ratingsTable, usersTable, feedTable>>

\* the request r stands before the step pc of a feed handler
At(r, pc) ==
    /\ requests[r].handler \in {"calculate_feed", "get_feed"}
    /\ requests[r].pc = pc

\* the rows of the Subscriptions table with "username = :username"
SubscriptionsOf(username) == IF username = Owner THEN subscriptions ELSE << >>

\* get_subscriptions(username); a failed scan is re-raised
GetSubscriptions(r, fails) ==
    /\ At(r, "get_subscriptions")
    /\ requests' = [requests EXCEPT ![r] =
          IF fails THEN [Abort(@) EXCEPT !.failed = "get_subscriptions"]
          ELSE [@ EXCEPT !.pc = "get_ratings",
                         !.subscriptions =
                            get_subscriptions(SubscriptionsOf(requests[r].username))]]
    /\ UNCHANGED <<subscriptions, ratings, history, albums, content, now, run>>
    /\ UNCHANGED moreTables
    /\ UNCHANGED <<ratingsTable, usersTable, feedTable, invocations>>

\* DynamoDB's contains(path, operand) on a string attribute: operand occurs
\* in it as a substring
Contains(s, operand) ==
    \E i \in 0..(Len(s) - Len(operand)) : SubSeq(s, i + 1, i + Len(operand)) = operand

transform_rating_for_response(item) ==
    [ratingId |-> item.ratingId, username |-> item.username, songId |-> item.songId,
     stars |-> item.stars, timestamp |-> item.timestamp]

\* the scan of get_ratings: FilterExpression 'contains(username, :username)'
get_ratings(table, username) ==
    LET Items == SelectSeq(table, LAMBDA item : Contains(item.username, username))
    IN  [i \in 1..Len(Items) |-> transform_rating_for_response(Items[i])]

GetRatings(r, fails) ==
    /\ At(r, "get_ratings")
    /\ requests' = [requests EXCEPT ![r] =
          IF fails THEN [Abort(@) EXCEPT !.failed = "get_ratings"]
          ELSE [@ EXCEPT !.pc = "get_user_history",
                         !.ratings = get_ratings(ratingsTable, requests[r].username)]]
    /\ UNCHANGED <<subscriptions, ratings, history, albums, content, now, run>>
    /\ UNCHANGED moreTables
    /\ UNCHANGED <<ratingsTable, usersTable, feedTable, invocations>>

\* get_user_history: [] when no user has the username
get_user_history(table, username) ==
    IF username \in DOMAIN table /\ table[username].exists
    THEN table[username].llisteningHistory
    ELSE << >>

GetUserHistory(r, fails) ==
    /\ At(r, "get_user_history")
    /\ requests' = [requests EXCEPT ![r] =
          IF fails THEN [Abort(@) EXCEPT !.failed = "get_user_history"]
          ELSE [@ EXCEPT !.pc = "get_all_albums",
                         !.history = get_user_history(usersTable, requests[r].username)]]
    /\ UNCHANGED <<subscriptions, ratings, history, albums, content, now, run>>
    /\ UNCHANGED moreTables
    /\ UNCHANGED <<ratingsTable, usersTable, feedTable, invocations>>

GetAllAlbums(r, fails) ==
    /\ At(r, "get_all_albums")
    /\ requests' = [requests EXCEPT ![r] =
          IF fails THEN [Abort(@) EXCEPT !.failed = "get_all_albums"]
          ELSE [@ EXCEPT !.pc = "_get_all_content",
                         !.albums = get_all_albums(requests[r].handler, albums)]]
    /\ UNCHANGED <<subscriptions, ratings, history, albums, content, now, run>>
    /\ UNCHANGED moreTables
    /\ UNCHANGED <<ratingsTable, usersTable, feedTable, invocations>>

\* _get_all_content: calculate_feed returns the item list, get_feed a
\* response dict with the items serialised in its body; when the scan fails
\* both catch the exception and return a response dict with statusCode 500
_get_all_content(handler, table, fails) ==
    IF fails THEN [kind |-> "response", statusCode |-> 500]
    ELSE IF handler = "calculate_feed" THEN [kind |-> "list", items |-> table]
    ELSE [kind |-> "response", statusCode |-> 200]

GetAllContent(r, fails) ==
    /\ At(r, "_get_all_content")
    /\ requests' = [requests EXCEPT ![r] =
          [@ EXCEPT !.pc = "get_feed_albums",
                    !.failed = IF fails THEN "_get_all_content" ELSE "none",
                    !.content = _get_all_content(requests[r].handler, content, fails)]]
    /\ UNCHANGED <<subscriptions, ratings, history, albums, content, now, run>>
    /\ UNCHANGED moreTables
    /\ UNCHANGED <<ratingsTable, usersTable, feedTable, invocations>>

\* the call of get_feed_albums.  calculate_feed, handed the response dict of
\* a failed content scan, iterates over its keys and calls .get on a str
\* (AttributeError; with no album the UnboundLocalError comes first);
\* get_feed only calls content.get(albumId, []) on its dict.  After the call
\* get_feed answers 200 with the list, calculate_feed goes on to store_feed.
GetFeedAlbums(r) ==
    /\ At(r, "get_feed_albums")
    /\ LET req == requests[r]
           items == IF req.content.kind = "list" THEN req.content.items ELSE << >>
           out == IF req.handler = "calculate_feed" /\ req.content.kind = "response"
                  THEN [status |-> "error", variant |-> req.handler, albums |-> req.albums]
                  ELSE get_feed_albums(req.handler, req.subscriptions, req.ratings,
                                       req.history, req.albums, items, now)
       IN  requests' = [requests EXCEPT ![r] =
              IF out.status = "error" THEN [Abort(@) EXCEPT !.out = out]
              ELSE IF req.handler = "calculate_feed"
              THEN [@ EXCEPT !.pc = "get_item", !.out = out, !.albums = out.albums]
              ELSE [@ EXCEPT !.pc = "done", !.out = out, !.albums = out.albums,
                             !.statusCode = 200,
                             !.body = [kind |-> "content", content |-> out.feed,
                                       count |-> Len(out.feed)]]]
    /\ UNCHANGED <<subscriptions, ratings, history, albums, content, now, run>>
    /\ UNCHANGED moreTables
    /\ UNCHANGED <<ratingsTable, usersTable, feedTable, invocations>>

\* store_feed, the get_item: a key that is no string is refused by DynamoDB
\* and the error re-raised; without an item store_feed returns a 404 dict the
\* handler does not look at, and the handler answers 200 'OK'
StoreFeedGetItem(r, fails) ==
    /\ At(r, "get_item")
    /\ requests' = [requests EXCEPT ![r] =
          IF fails \/ requests[r].username \notin DOMAIN feedTable THEN Abort(@)
          ELSE IF ~ feedTable[requests[r].username].exists
          THEN [@ EXCEPT !.pc = "done", !.statusCode = 200, !.body = [kind |-> "OK"]]
          ELSE [@ EXCEPT !.pc = "update_item"]]
    /\ UNCHANGED <<subscriptions, ratings, history, albums, content, now, run>>
    /\ UNCHANGED moreTables
    /\ UNCHANGED <<ratingsTable, usersTable, feedTable, invocations>>

\* an update that appends to the stored list
update_item_append_feed(item, feed) == [exists |-> TRUE, feed |-> item.feed \o feed]

\* update_item with "SET #feed = :feed": the feed attribute is replaced
update_item_set_feed(item, feed) == [exists |-> TRUE, feed |-> feed]

\* store_feed, the update_item, and the 200 of the handler
StoreFeedUpdateItem(r, fails) ==
    /\ At(r, "update_item")
    /\ requests' = [requests EXCEPT ![r] =
          IF fails THEN Abort(@)
          ELSE [@ EXCEPT !.pc = "done", !.stored = TRUE, !.statusCode = 200,
                         !.body = [kind |-> "OK"]]]
    /\ feedTable' =
          IF fails THEN feedTable
          ELSE [feedTable EXCEPT ![requests[r].username] =
                   update_item_set_feed(@, requests[r].out.feed)]
    /\ UNCHANGED <<subscriptions, ratings, history, albums, content, now, run>>
    /\ UNCHANGED moreTables
    /\ UNCHANGED <<ratingsTable, usersTable, invocations>>

(***************************************************************************)
(* registration: the profile, the empty feed and the trigger               *)
(***************************************************************************)
\* the handler for a username not taken: store_user_profile,
\* insert_empty_feed and trigger_feed_calculation
Registration(u) ==
    /\ ~ usersTable[u].exists
    /\ usersTable' = [usersTable EXCEPT ![u] = [exists |-> TRUE, llisteningHistory |-> << >>]]
    /\ feedTable' = [feedTable EXCEPT ![u] = [exists |-> TRUE, feed |-> << >>]]
    /\ invocations' = Append(invocations, TriggerPayload(u, "registration"))
    /\ UNCHANGED <<subscriptions, ratings, history, albums, content, now, run>>
    /\ UNCHANGED moreTables
    /\ UNCHANGED <<ratingsTable, requests>>

(***************************************************************************)
(* add_to_history: the handler, one step per table access                  *)
(***************************************************************************)
\* the requests the API passes on: plays of S1, of S3 and of a content id
\* the table does not hold, a request of an administrator, one without body
HistoryEvents ==
    {[requestContext |-> [authorizer |-> [username |-> u, role |-> "user"]],
      hasBody |-> TRUE, contentId |-> c] : u \in Users, c \in {"S1", "S3", "S9"}}
    \cup {[requestContext |-> [authorizer |-> [username |-> u, role |-> "admin"]],
           hasBody |-> TRUE, contentId |-> "S1"] : u \in Users}
    \cup {[requestContext |-> [authorizer |-> [username |-> u, role |-> "user"]],
           hasBody |-> FALSE, contentId |-> "S1"] : u \in Users}

is_admin_user(event) == event.requestContext.authorizer.role = "admin"

\* handler, up to the call of add_to_history
AddToHistory(r, event) ==
    /\ Arrives(r)
    /\ requests' = [requests EXCEPT ![r] =
          IF is_admin_user(event)
          THEN [handler |-> "add_to_history", pc |-> "done", event |-> event,
                username |-> Username(event), statusCode |-> 201, appended |-> FALSE]
          ELSE IF ~ event.hasBody
          THEN [handler |-> "add_to_history", pc |-> "done", event |-> event,
                username |-> Username(event), statusCode |-> 400, appended |-> FALSE]
          ELSE [handler |-> "add_to_history", pc |-> "get_item", event |-> event,
                username |-> Username(event), statusCode |-> 0, appended |-> FALSE]]
    /\ UNCHANGED <<subscriptions, ratings, history, albums, content, now, run>>
    /\ UNCHANGED moreTables
    /\ UNCHANGED <<ratingsTable, usersTable, feedTable, invocations>>

\* add_to_history, the get_item of the content: without an item it returns a
\* 404 dict, which the handler drops before it goes on to the trigger
AddToHistoryGetItem(r) ==
    /\ requests[r].handler = "add_to_history"
    /\ requests[r].pc = "get_item"
    /\ LET Item == SelectSeq(content,
                             LAMBDA item : item.contentId = requests[r].event.contentId)
       IN  requests' = [requests EXCEPT ![r] =
              IF Len(Item) = 0 THEN [@ EXCEPT !.pc = "trigger"]
              ELSE [handler |-> "add_to_history", pc |-> "scan", event |-> @.event,
                    username |-> @.username, statusCode |-> 0, appended |-> FALSE,
                    item |-> Item[1]]]
    /\ UNCHANGED <<subscriptions, ratings, history, albums, content, now, run>>
    /\ UNCHANGED moreTables
    /\ UNCHANGED <<ratingsTable, usersTable, feedTable, invocations>>

\* add_to_history, the scan of the Users table: items[0] raises IndexError
\* when no user has the username; otherwise the history item is built
AddToHistoryScan(r) ==
    /\ requests[r].handler = "add_to_history"
    /\ requests[r].pc = "scan"
    /\ requests' = [requests EXCEPT ![r] =
          IF ~ (@.username \in DOMAIN usersTable /\ usersTable[@.username].exists)
          THEN [@ EXCEPT !.pc = "done", !.statusCode = 500]
          ELSE [handler |-> "add_to_history", pc |-> "update_item", event |-> @.event,
                username |-> @.username, statusCode |-> 0, appended |-> FALSE,
                item |-> @.item,
                history_item |-> [genre |-> @.item.genre, artist |-> @.item.artistId,
                                  timestamp |-> IsoFormat(now)]]]
    /\ UNCHANGED <<subscriptions, ratings, history, albums, content, now, run>>
    /\ UNCHANGED moreTables
    /\ UNCHANGED <<ratingsTable, usersTable, feedTable, invocations>>

\* an update "SET stats.llisteningHistory = :new_item"
set_new_item(list, new_item) == new_item

\* list_append(if_not_exists(stats.llisteningHistory, :empty_list), :new_item),
\* evaluated by the table on the stored list
list_append(list, new_item) == list \o new_item

\* add_to_history, the update_item
AddToHistoryUpdateItem(r) ==
    /\ requests[r].handler = "add_to_history"
    /\ requests[r].pc = "update_item"
    /\ usersTable' = [usersTable EXCEPT ![requests[r].username].llisteningHistory =
                         list_append(@, <<requests[r].history_item>>)]
    /\ requests' = [requests EXCEPT ![r] = [@ EXCEPT !.pc = "trigger", !.appended = TRUE]]
    /\ UNCHANGED <<subscriptions, ratings, history, albums, content, now, run>>
    /\ UNCHANGED moreTables
    /\ UNCHANGED <<ratingsTable, feedTable, invocations>>

\* trigger_feed_calculation and the 201 of the handler
TriggerFeedCalculation(r) ==
    /\ requests[r].handler = "add_to_history"
    /\ requests[r].pc = "trigger"
    /\ invocations' = Append(invocations,
                             TriggerPayload(requests[r].username, "history_updated"))
    /\ requests' = [requests EXCEPT ![r] = [@ EXCEPT !.pc = "done", !.statusCode = 201]]
    /\ UNCHANGED <<subscriptions, ratings, history, albums, content, now, run>>
    /\ UNCHANGED moreTables
    /\ UNCHANGED <<ratingsTable, usersTable, feedTable>>

(***************************************************************************)
(* registration, one step per call of a service                            *)
(* (registration/index.py); every user has an email address of their own,  *)
(* and the body passes the validation                                      *)
(***************************************************************************)
\* the registration requests the API passes on
RegistrationEvents ==
    {[hasBody |-> TRUE, username |-> u] : u \in Users} \cup {[hasBody |-> FALSE]}

\* the request r stands before the step pc of the registration handler
InRegistration(r, pc) ==
    /\ requests[r].handler = "registration"
    /\ requests[r].pc = pc

\* the answer of the handler to an exception or a failed check
Refused(req, status, step) ==
    [req EXCEPT !.pc = "done", !.statusCode = status, !.failed = step]

\* the user pool holds a user once create_cognito_user has passed for the
\* username: the users with a profile, and those of requests past that step
CognitoHas(u) ==
    \/ usersTable[u].exists
    \/ \E q \in Requests : /\ requests[q].handler = "registration"
                           /\ requests[q].event.hasBody
                           /\ requests[q].event.username = u
                           /\ requests[q].cognito

\* handler, up to the uniqueness checks
RegistrationRequest(r, event) ==
    /\ Arrives(r)
    /\ requests' = [requests EXCEPT ![r] =
          [handler |-> "registration",
           pc |-> IF event.hasBody THEN "check_username_exists" ELSE "done",
           event |-> event,
           statusCode |-> IF event.hasBody THEN 0 ELSE 400,
           failed |-> "none", cognito |-> FALSE, triggered |-> FALSE]]
    /\ UNCHANGED <<subscriptions, ratings, history, albums, content, now, run>>
    /\ UNCHANGED <<ratingsTable, usersTable, feedTable, invocations>>
    /\ UNCHANGED moreTables

\* check_username_exists: a failed query counts as "does not exist"
CheckUsernameExists(r, fails) ==
    /\ InRegistration(r, "check_username_exists")
    /\ requests' = [requests EXCEPT ![r] =
          IF ~ fails /\ usersTable[@.event.username].exists
          THEN Refused(@, 409, "check_username_exists")
          ELSE [@ EXCEPT !.pc = "check_email_exists"]]
    /\ UNCHANGED <<subscriptions, ratings, history, albums, content, now, run>>
    /\ UNCHANGED <<ratingsTable, usersTable, feedTable, invocations>>
    /\ UNCHANGED moreTables

\* check_email_exists, likewise
CheckEmailExists(r, fails) ==
    /\ InRegistration(r, "check_email_exists")
    /\ requests' = [requests EXCEPT ![r] =
          IF ~ fails /\ usersTable[@.event.username].exists
          THEN Refused(@, 409, "check_email_exists")
          ELSE [@ EXCEPT !.pc = "create_cognito_user"]]
    /\ UNCHANGED <<subscriptions, ratings, history, albums, content, now, run>>
    /\ UNCHANGED <<ratingsTable, usersTable, feedTable, invocations>>
    /\ UNCHANGED moreTables

\* create_cognito_user: the user pool refuses a username it holds, and any
\* failure is raised as ValueError, which the handler answers with 400
CreateCognitoUser(r, fails) ==
    /\ InRegistration(r, "create_cognito_user")
    /\ requests' = [requests EXCEPT ![r] =
          IF fails \/ CognitoHas(@.event.username)
          THEN Refused(@, 400, "create_cognito_user")
          ELSE [@ EXCEPT !.pc = "store_user_profile", !.cognito = TRUE]]
    /\ UNCHANGED <<subscriptions, ratings, history, albums, content, now, run>>
    /\ UNCHANGED <<ratingsTable, usersTable, feedTable, invocations>>
    /\ UNCHANGED moreTables

\* store_user_profile: put_item of the profile with an empty history
StoreUserProfile(r, fails) ==
    /\ InRegistration(r, "store_user_profile")
    /\ requests' = [requests EXCEPT ![r] =
          IF fails THEN Refused(@, 500, "store_user_profile")
          ELSE [@ EXCEPT !.pc = "insert_empty_feed"]]
    /\ usersTable' =
          IF fails THEN usersTable
          ELSE [usersTable EXCEPT ![requests[r].event.username] =
                   [exists |-> TRUE, llisteningHistory |-> << >>]]
    /\ UNCHANGED <<subscriptions, ratings, history, albums, content, now, run>>
    /\ UNCHANGED <<ratingsTable, feedTable, invocations>>
    /\ UNCHANGED moreTables

\* an insert_empty_feed that logs the error of put_item without raising it
InsertEmptyFeedQuietly(r, fails) ==
    /\ InRegistration(r, "insert_empty_feed")
    /\ requests' = [requests EXCEPT ![r] = [@ EXCEPT !.pc = "trigger_feed_calculation"]]
    /\ feedTable' =
          IF fails THEN feedTable
          ELSE [feedTable EXCEPT ![requests[r].event.username] =
                   [exists |-> TRUE, feed |-> << >>]]
    /\ UNCHANGED <<subscriptions, ratings, history, albums, content, now, run>>
    /\ UNCHANGED <<ratingsTable, usersTable, invocations>>
    /\ UNCHANGED moreTables

\* insert_empty_feed: put_item of the feed record with an empty list
InsertEmptyFeed(r, fails) ==
    /\ InRegistration(r, "insert_empty_feed")
    /\ requests' = [requests EXCEPT ![r] =
          IF fails THEN Refused(@, 500, "insert_empty_feed")
          ELSE [@ EXCEPT !.pc = "trigger_feed_calculation"]]
    /\ feedTable' =
          IF fails THEN feedTable
          ELSE [feedTable EXCEPT ![requests[r].event.username] =
                   [exists |-> TRUE, feed |-> << >>]]
    /\ UNCHANGED <<subscriptions, ratings, history, albums, content, now, run>>
    /\ UNCHANGED <<ratingsTable, usersTable, invocations>>
    /\ UNCHANGED moreTables

\* trigger_feed_calculation, the asynchronous invoke, and the 201 of the
\* handler
RegistrationTrigger(r, fails) ==
    /\ InRegistration(r, "trigger_feed_calculation")
    /\ requests' = [requests EXCEPT ![r] =
          IF fails THEN Refused(@, 500, "trigger_feed_calculation")
          ELSE [@ EXCEPT !.pc = "done", !.statusCode = 201, !.triggered = TRUE]]
    /\ invocations' =
          IF fails THEN invocations
          ELSE Append(invocations, TriggerPayload(requests[r].event.username, "registration"))
    /\ UNCHANGED <<subscriptions, ratings, history, albums, content, now, run>>
    /\ UNCHANGED <<ratingsTable, usersTable, feedTable>>
    /\ UNCHANGED moreTables

(***************************************************************************)
(* start_transcription, one step per call of a service                     *)
(* (start_transcription/index.py), the transcription service, and          *)
(* monitor_transcription (monitor_transcription/index.py)                  *)
(***************************************************************************)
\* the invocations of start_transcription: with or without s3Key and
\* bucketName
TranscriptionEvents == {[contentId |-> c, complete |-> b] : c \in Uploads, b \in BOOLEAN}

\* "transcription-{content_id}-{timestamp}", the timestamp in seconds
JobName(content_id, timestamp) == <<content_id, timestamp>>

\* the record has no jobName attribute
NoJob == <<"none", 0>>

\* the request r stands before the step pc of start_transcription
InStartTranscription(r, pc) ==
    /\ requests[r].handler = "start_transcription"
    /\ requests[r].pc = pc

\* handler, up to check_existing_transcription: a missing parameter raises
\* ValueError
StartTranscription(r, event) ==
    /\ Arrives(r)
    /\ requests' = [requests EXCEPT ![r] =
          [handler |-> "start_transcription",
           pc |-> IF event.complete THEN "get_item" ELSE "failed",
           event |-> event, found |-> "NONE", job_name |-> NoJob, statusCode |-> 0]]
    /\ UNCHANGED <<subscriptions, ratings, history, albums, content, now, run>>
    /\ UNCHANGED <<ratingsTable, usersTable, feedTable, invocations>>
    /\ UNCHANGED moreTables

\* check_existing_transcription and the branches on its result: a record in
\* PROCESSING or COMPLETED ends the request, any other record or none lets
\* it go on; a failed get_item counts as no record
CheckExistingTranscription(r, fails) ==
    /\ InStartTranscription(r, "get_item")
    /\ LET item == transcriptionsTable[requests[r].event.contentId]
           existing_transcription == ~ fails /\ item.exists
       IN  requests' = [requests EXCEPT ![r] =
              IF existing_transcription /\ item.status \in {"PROCESSING", "COMPLETED"}
              THEN [@ EXCEPT !.pc = "done", !.statusCode = 200]
              ELSE [@ EXCEPT !.pc = "put_item",
                             !.found = IF existing_transcription THEN item.status
                                       ELSE "NONE"]]
    /\ UNCHANGED <<subscriptions, ratings, history, albums, content, now, run>>
    /\ UNCHANGED <<ratingsTable, usersTable, feedTable, invocations>>
    /\ UNCHANGED moreTables

\* create_transcription_record
create_transcription_record(content_id) ==
    [exists |-> TRUE, status |-> "PROCESSING", retryCount |-> 0, jobName |-> NoJob]

\* store_transcription_record: put_item replaces the record
StoreTranscriptionRecord(r, fails) ==
    /\ InStartTranscription(r, "put_item")
    /\ requests' = [requests EXCEPT ![r] =
          [@ EXCEPT !.pc = IF fails THEN "failed" ELSE "start_transcription_job"]]
    /\ transcriptionsTable' =
          IF fails THEN transcriptionsTable
          ELSE [transcriptionsTable EXCEPT ![requests[r].event.contentId] =
                   create_transcription_record(requests[r].event.contentId)]
    /\ UNCHANGED <<subscriptions, ratings, history, albums, content, now, run>>
    /\ UNCHANGED <<ratingsTable, usersTable, feedTable, invocations>>
    /\ UNCHANGED <<subscriptionsTable, transcriptionJobs, transcriptionQueue>>

\* the job of the transcription service under a name, if any
JobsNamed(job_name) == SelectSeq(transcriptionJobs, LAMBDA job : job.jobName = job_name)

\* start_transcription_job under a name made of the contentId and the second
\* of the call: the service refuses a name it knows
StartTranscriptionJob(r, timestamp, fails) ==
    /\ InStartTranscription(r, "start_transcription_job")
    /\ LET job_name == JobName(requests[r].event.contentId, timestamp)
           refused == fails \/ Len(JobsNamed(job_name)) > 0
       IN  /\ requests' = [requests EXCEPT ![r] =
                 IF refused THEN [@ EXCEPT !.pc = "failed"]
                 ELSE [@ EXCEPT !.pc = "update_item", !.job_name = job_name]]
           /\ transcriptionJobs' =
                 IF refused THEN transcriptionJobs
                 ELSE Append(transcriptionJobs,
                             [jobName |-> job_name,
                              contentId |-> requests[r].event.contentId,
                              status |-> "IN_PROGRESS",
                              found |-> requests[r].found])
    /\ UNCHANGED <<subscriptions, ratings, history, albums, content, now, run>>
    /\ UNCHANGED <<ratingsTable, usersTable, feedTable, invocations>>
    /\ UNCHANGED <<subscriptionsTable, transcriptionsTable, transcriptionQueue>>

\* update_transcription_status(content_id, status, ...): "SET #status =
\* :status, ..." under the key contentId creates the record if there is none
update_transcription_status(table, content_id, status, job_name) ==
    [table EXCEPT ![content_id] =
        [exists |-> TRUE, status |-> status, retryCount |-> @.retryCount,
         jobName |-> IF status = "PROCESSING" THEN job_name
                     ELSE IF @.exists THEN @.jobName ELSE NoJob]]

\* the update to PROCESSING with the name of the job
UpdateTranscriptionProcessing(r, fails) ==
    /\ InStartTranscription(r, "update_item")
    /\ requests' = [requests EXCEPT ![r] =
          [@ EXCEPT !.pc = IF fails THEN "failed" ELSE "send_message"]]
    /\ transcriptionsTable' =
          IF fails THEN transcriptionsTable
          ELSE update_transcription_status(transcriptionsTable, requests[r].event.contentId,
                                           "PROCESSING", requests[r].job_name)
    /\ UNCHANGED <<subscriptions, ratings, history, albums, content, now, run>>
    /\ UNCHANGED <<ratingsTable, usersTable, feedTable, invocations>>
    /\ UNCHANGED <<subscriptionsTable, transcriptionJobs, transcriptionQueue>>

\* the body of the message send_monitoring_message sends
monitoring_message(content_id, job_name) ==
    [contentId |-> content_id, jobName |-> job_name, action |-> "monitor"]

\* send_monitoring_message and the 200 of the handler
SendMonitoringMessage(r, fails) ==
    /\ InStartTranscription(r, "send_message")
    /\ requests' = [requests EXCEPT ![r] =
          IF fails THEN [@ EXCEPT !.pc = "failed"]
          ELSE [@ EXCEPT !.pc = "done", !.statusCode = 200]]
    /\ transcriptionQueue' =
          IF fails THEN transcriptionQueue
          ELSE Append(transcriptionQueue,
                      monitoring_message(requests[r].event.contentId, requests[r].job_name))
    /\ UNCHANGED <<subscriptions, ratings, history, albums, content, now, run>>
    /\ UNCHANGED <<ratingsTable, usersTable, feedTable, invocations>>
    /\ UNCHANGED <<subscriptionsTable, transcriptionsTable, transcriptionJobs>>

\* "except Exception" of the handler: the update to FAILED, whose own failure
\* is logged, and the 500
UpdateTranscriptionFailed(r, fails) ==
    /\ InStartTranscription(r, "failed")
    /\ requests' = [requests EXCEPT ![r] = [@ EXCEPT !.pc = "done", !.statusCode = 500]]
    /\ transcriptionsTable' =
          IF fails THEN transcriptionsTable
          ELSE update_transcription_status(transcriptionsTable, requests[r].event.contentId,
                                           "FAILED", NoJob)
    /\ UNCHANGED <<subscriptions, ratings, history, albums, content, now, run>>
    /\ UNCHANGED <<ratingsTable, usersTable, feedTable, invocations>>
    /\ UNCHANGED <<subscriptionsTable, transcriptionJobs, transcriptionQueue>>

\* the transcription service ends a job
JobEnds(k, status) ==
    /\ k \in 1..Len(transcriptionJobs)
    /\ transcriptionJobs[k].status = "IN_PROGRESS"
    /\ transcriptionJobs' = [transcriptionJobs EXCEPT ![k].status = status]
    /\ UNCHANGED <<subscriptions, ratings, history, albums, content, now, run>>
    /\ UNCHANGED <<ratingsTable, usersTable, feedTable, invocations, requests>>
    /\ UNCHANGED <<subscriptionsTable, transcriptionsTable, transcriptionQueue>>

\* check_transcription_job
check_transcription_job(job_name) ==
    IF Len(JobsNamed(job_name)) = 0 THEN "NOT_FOUND" ELSE JobsNamed(job_name)[1].status

\* every write of monitor_transcription addresses the record with
\* Key={'transcriptionId': ...}; the key of the table is contentId, so the
\* table refuses the write and the record stays as it is
update_by_transcription_id(table, transcription_id, status) == table

\* the queue after the handler has returned: the delivered message is deleted
\* and what the handler has sent is added
Delivered(k, sent) ==
    SubSeq(transcriptionQueue, 1, k - 1)
       \o SubSeq(transcriptionQueue, k + 1, Len(transcriptionQueue)) \o sent

\* monitor_transcription on one message of the queue: a body without
\* transcriptionId raises KeyError, which the loop logs; the handler returns
\* 200 in every case, so the message is deleted
MonitorTranscription(k) ==
    /\ k \in 1..Len(transcriptionQueue)
    /\ LET message == transcriptionQueue[k]
       IN  IF "transcriptionId" \notin DOMAIN message
           THEN /\ transcriptionQueue' = Delivered(k, << >>)
                /\ UNCHANGED transcriptionsTable
           ELSE LET job_status == check_transcription_job(message.jobName)
                IN  /\ transcriptionQueue' =
                          Delivered(k, IF job_status = "IN_PROGRESS"
                                       THEN <<[transcriptionId |-> message.transcriptionId,
                                               jobName |-> message.jobName,
                                               action |-> "monitor"]>>
                                       ELSE << >>)
                    /\ transcriptionsTable' =
                          IF job_status \in {"COMPLETED", "FAILED", "NOT_FOUND"}
                          THEN update_by_transcription_id(transcriptionsTable,
                                                          message.transcriptionId, job_status)
                          ELSE transcriptionsTable
    /\ UNCHANGED <<subscriptions, ratings, history, albums, content, now, run>>
    /\ UNCHANGED <<ratingsTable, usersTable, feedTable, invocations, requests>>
    /\ UNCHANGED <<subscriptionsTable, transcriptionJobs>>

(***************************************************************************)
(* Specifications                                                          *)
(***************************************************************************)
NoSignals ==
    /\ subscriptions = << >>
    /\ ratings = << >>
    /\ history = << >>
    /\ now = 0
    /\ run = NoRun
    /\ HandlersIdle

\* a new user in a catalog of AL1 and AL2 with the single track S1
Init ==
    /\ albums \in {s \in Catalogs : \A j \in 1..Len(s) : s[j].albumId \in {"AL1", "AL2"}}
    /\ content = SelectSeq(TrackPool, LAMBDA item : item.contentId = "S1")
    /\ NoSignals

Next ==
    \/ \E item \in SubPool : Subscribe(item)
    \/ \E i \in 1..Len(content), stars \in MinStars..MaxStars : Rate(content[i].contentId, stars)
    \/ \E i \in 1..Len(content) : Play(content[i])
    \/ \E t \in Instants : Tick(t)
    \/ CalculateFeed
    \/ GetFeed

Spec == Init /\ [][Next]_vars

\* one subscription-and-rating situation the history is varied under
Situations ==
    {[subscriptions |-> << >>, ratings |-> << >>],
     [subscriptions |-> <<[subscriptionType |-> "GENRE", targetId |-> None, targetName |-> jazz]>>,
      ratings |-> <<[songId |-> "S1", stars |-> 1]>>]}

\* the history and the time vary, over every catalog and content index
InitHistory ==
    /\ albums \in Catalogs
    /\ content \in Contents
    /\ \E sit \in Situations : subscriptions = sit.subscriptions /\ ratings = sit.ratings
    /\ history = << >>
    /\ now = 0
    /\ run = NoRun
    /\ HandlersIdle

NextHistory ==
    \/ \E i \in 1..Len(content) : Play(content[i])
    \/ \E t \in Instants : Tick(t)
    \/ CalculateFeed
    \/ GetFeed

SpecHistory == InitHistory /\ [][NextHistory]_vars

\* the ratings and the history the subscriptions are varied under
RatingSituations ==
    {<< >>, <<[songId |-> "S1", stars |-> 5]>>, <<[songId |-> "S1", stars |-> 1]>>}

HistorySituations ==
    {<< >>, <<[genre |-> rock, artist |-> "A1", timestamp |-> IsoFormat(0)]>>}

\* the subscriptions vary, over every catalog and content index
InitSubs ==
    /\ albums \in Catalogs
    /\ content \in Contents
    /\ ratings \in RatingSituations
    /\ history \in HistorySituations
    /\ subscriptions = << >>
    /\ now = 0
    /\ run = NoRun
    /\ HandlersIdle

NextSubs ==
    \/ \E item \in SubPool : Subscribe(item)
    \/ CalculateFeed

SpecSubs == InitSubs /\ [][NextSubs]_vars

\* the ratings vary, over every catalog and content index
InitRatings ==
    /\ albums \in Catalogs
    /\ content \in Contents
    /\ NoSignals

NextRatings ==
    \/ \E i \in 1..Len(content), stars \in MinStars..MaxStars : Rate(content[i].contentId, stars)
    \/ CalculateFeed

SpecRatings == InitRatings /\ [][NextRatings]_vars

\* rating requests of registered users, served concurrently
InitCreateRating ==
    /\ albums = <<CHOOSE a \in AlbumPool : a.albumId = "AL1">>
    /\ content = SelectSeq(TrackPool, LAMBDA item : item.contentId = "S1")
    /\ NoSignals

NextCreateRating ==
    \/ \E r \in Requests, event \in RatingEvents : CreateRating(r, event)
    \/ \E r \in Requests : StoreRatingScan(r)
    \/ \E r \in Requests : StoreRatingPut(r)

SpecCreateRating == InitCreateRating /\ [][NextCreateRating]_vars

\* the catalog, the content index and the users of the handler runs: AL1
\* and AL2 with the track S1
HandlerWorld ==
    /\ albums = <<CHOOSE a \in AlbumPool : a.albumId = "AL1",
                  CHOOSE a \in AlbumPool : a.albumId = "AL2">>
    /\ content = SelectSeq(TrackPool, LAMBDA item : item.contentId = "S1")
    /\ ratings = << >>
    /\ history = << >>
    /\ now = 0
    /\ run = NoRun
    /\ requests = [r \in Requests |-> Idle]
    /\ MoreTablesIdle

\* a row of the Ratings table
RatingRow(id, u, stars) ==
    [ratingId |-> id, username |-> u, songId |-> "S1", stars |-> stars,
     timestamp |-> IsoFormat(0)]

\* both users are registered and have rated S1, ana is subscribed to jazz;
\* requests to both lambdas, any table access of which can fail
InitCollect ==
    /\ HandlerWorld
    /\ subscriptions = <<[subscriptionType |-> "GENRE", targetId |-> None, targetName |-> jazz]>>
    /\ ratingsTable = <<RatingRow(1, an, MaxStars), RatingRow(2, ana, MinStars)>>
    /\ usersTable = [u \in Users |-> [exists |-> TRUE, llisteningHistory |-> << >>]]
    /\ feedTable = [u \in Users |-> [exists |-> TRUE, feed |-> << >>]]
    /\ invocations = << >>

NextCollect ==
    \/ \E r \in Requests, handler \in {"calculate_feed", "get_feed"}, u \in Users :
          Request(r, handler, u)
    \/ \E r \in Requests, fails \in BOOLEAN : GetSubscriptions(r, fails)
    \/ \E r \in Requests, fails \in BOOLEAN : GetRatings(r, fails)
    \/ \E r \in Requests, fails \in BOOLEAN : GetUserHistory(r, fails)
    \/ \E r \in Requests, fails \in BOOLEAN : GetAllAlbums(r, fails)
    \/ \E r \in Requests, fails \in BOOLEAN : GetAllContent(r, fails)
    \/ \E r \in Requests : GetFeedAlbums(r)
    \/ \E r \in Requests, fails \in BOOLEAN : StoreFeedGetItem(r, fails)
    \/ \E r \in Requests, fails \in BOOLEAN : StoreFeedUpdateItem(r, fails)

SpecCollect == InitCollect /\ [][NextCollect]_vars

\* ana is registered, an is not yet; ana may just have played S1, with the
\* trigger of add_to_history still queued
InitFeed ==
    /\ HandlerWorld
    /\ subscriptions = << >>
    /\ ratingsTable = <<RatingRow(2, ana, MinStars)>>
    /\ feedTable = [u \in Users |-> [exists |-> u = ana, feed |-> << >>]]
    /\ \/ /\ usersTable = [u \in Users |-> [exists |-> u = ana, llisteningHistory |-> << >>]]
          /\ invocations = << >>
       \/ /\ usersTable = [u \in Users |->
                [exists |-> u = ana,
                 llisteningHistory |->
                    IF u = ana
                    THEN <<[genre |-> rock, artist |-> "A1", timestamp |-> IsoFormat(0)]>>
                    ELSE << >>]]
          /\ invocations = <<TriggerPayload(ana, "history_updated")>>

\* runs of calculate_feed, requested or triggered, while users register and
\* ana subscribes
NextFeed ==
    \/ \E item \in {s \in SubPool : s.targetName = jazz} : Subscribe(item)
    \/ \E u \in Users : Registration(u)
    \/ \E r \in Requests, u \in Users : Request(r, "calculate_feed", u)
    \/ \E r \in Requests, k \in 1..MaxRequests : InvokeAsync(r, k)
    \/ \E r \in Requests : GetSubscriptions(r, FALSE)
    \/ \E r \in Requests : GetRatings(r, FALSE)
    \/ \E r \in Requests : GetUserHistory(r, FALSE)
    \/ \E r \in Requests : GetAllAlbums(r, FALSE)
    \/ \E r \in Requests : GetAllContent(r, FALSE)
    \/ \E r \in Requests : GetFeedAlbums(r)
    \/ \E r \in Requests : StoreFeedGetItem(r, FALSE)
    \/ \E r \in Requests, fails \in BOOLEAN : StoreFeedUpdateItem(r, fails)

SpecFeed == InitFeed /\ [][NextFeed]_vars

\* ana is registered, an is not; the content index holds S1 and S3
InitAddToHistory ==
    /\ albums = <<CHOOSE a \in AlbumPool : a.albumId = "AL1",
                  CHOOSE a \in AlbumPool : a.albumId = "AL2">>
    /\ content = SelectSeq(TrackPool, LAMBDA item : item.contentId \in {"S1", "S3"})
    /\ subscriptions = << >>
    /\ ratings = << >>
    /\ history = << >>
    /\ now = 0
    /\ run = NoRun
    /\ ratingsTable = << >>
    /\ usersTable = [u \in Users |-> [exists |-> u = ana, llisteningHistory |-> << >>]]
    /\ feedTable = [u \in Users |-> [exists |-> u = ana, feed |-> << >>]]
    /\ invocations = << >>
    /\ requests = [r \in Requests |-> Idle]
    /\ MoreTablesIdle

NextAddToHistory ==
    \/ \E r \in Requests, event \in HistoryEvents : AddToHistory(r, event)
    \/ \E r \in Requests : AddToHistoryGetItem(r)
    \/ \E r \in Requests : AddToHistoryScan(r)
    \/ \E r \in Requests : AddToHistoryUpdateItem(r)
    \/ \E r \in Requests : TriggerFeedCalculation(r)
    \/ \E t \in Instants : Tick(t)

SpecAddToHistory == InitAddToHistory /\ [][NextAddToHistory]_vars

\* albums whose item lacks the genre or the artistId attribute
\* (transform_album_for_response passes item.get(...) on: None), and AL1
MalformedPool ==
    {[albumId |-> "AL1", artistId |-> "A1", genre |-> rock],
     [albumId |-> "AL4", artistId |-> "A1", genre |-> NoneStr],
     [albumId |-> "AL5", artistId |-> None, genre |-> rock]}

MalformedCatalogs ==
    {s \in UNION {[1..n -> MalformedPool] : n \in 1..MaxAlbums} :
        Injective(s) /\ \E j \in 1..Len(s) : s[j].albumId # "AL1"}

\* the subscriptions vary over catalogs with an album without genre or
\* artist; S1 of AL1 and S4 of AL4 may be rated
InitMalformed ==
    /\ albums \in MalformedCatalogs
    /\ content = <<[contentId |-> "S1", albumId |-> "AL1", artistId |-> "A1", genre |-> rock],
                   [contentId |-> "S4", albumId |-> "AL4", artistId |-> "A1", genre |-> NoneStr]>>
    /\ ratings \in {<< >>, <<[songId |-> "S1", stars |-> MaxStars]>>,
                    <<[songId |-> "S4", stars |-> MaxStars]>>}
    /\ history \in HistorySituations
    /\ subscriptions = << >>
    /\ now = 0
    /\ run = NoRun
    /\ HandlersIdle

NextMalformed ==
    \/ \E item \in SubPool : Subscribe(item)
    \/ CalculateFeed
    \/ GetFeed

SpecMalformed == InitMalformed /\ [][NextMalformed]_vars

\* the ratings vary under runs of both lambdas, over every catalog and
\* content index
NextRated ==
    \/ \E i \in 1..Len(content), stars \in MinStars..MaxStars : Rate(content[i].contentId, stars)
    \/ CalculateFeed
    \/ GetFeed

SpecRated == InitRatings /\ [][NextRated]_vars

\* a history of n plays of one track, all made at time t
Listened(item, t, n) ==
    [k \in 1..n |-> [genre |-> item.genre, artist |-> item.artistId,
                     timestamp |-> IsoFormat(t)]]

\* a user who has played one track up to MaxPlays times at time 0 and at
\* most once more at the current time: the history and the time vary from
\* there, over every catalog and content index
InitListener ==
    /\ albums \in Catalogs
    /\ content \in Contents
    /\ subscriptions = << >>
    /\ ratings = << >>
    /\ now \in Instants
    /\ \/ history = << >>
       \/ \E i \in 1..Len(content), n \in 0..MaxPlays, m \in 0..1 :
             history = Listened(content[i], 0, n) \o Listened(content[i], now, m)
    /\ run = NoRun
    /\ HandlersIdle

NextListener ==
    \/ \E i \in 1..Len(content) : Play(content[i])
    \/ \E t \in Instants : Tick(t)
    \/ CalculateFeed
    \/ GetFeed

SpecListener == InitListener /\ [][NextListener]_vars

\* create_subscription requests of both users, one after another or at the
\* same time
InitCreateSubscription ==
    /\ albums = <<CHOOSE a \in AlbumPool : a.albumId = "AL1">>
    /\ content = SelectSeq(TrackPool, LAMBDA item : item.contentId = "S1")
    /\ NoSignals

NextCreateSubscription ==
    \/ \E r \in Requests, event \in SubscriptionEvents : CreateSubscription(r, event)
    \/ \E r \in Requests : StoreSubscriptionScan(r)
    \/ \E r \in Requests : StoreSubscriptionPut(r)

SpecCreateSubscription == InitCreateSubscription /\ [][NextCreateSubscription]_vars

\* nobody is registered; users register, any call of a service can fail, the
\* runs the registrations trigger are delivered and made, and registered
\* users request runs
InitRegistration ==
    /\ HandlerWorld
    /\ subscriptions = << >>
    /\ ratingsTable = << >>
    /\ usersTable = [u \in Users |-> NoUserItem]
    /\ feedTable = [u \in Users |-> NoFeedItem]
    /\ invocations = << >>

NextRegistration ==
    \/ \E r \in Requests, event \in RegistrationEvents : RegistrationRequest(r, event)
    \/ \E r \in Requests, fails \in BOOLEAN : CheckUsernameExists(r, fails)
    \/ \E r \in Requests, fails \in BOOLEAN : CheckEmailExists(r, fails)
    \/ \E r \in Requests, fails \in BOOLEAN : CreateCognitoUser(r, fails)
    \/ \E r \in Requests, fails \in BOOLEAN : StoreUserProfile(r, fails)
    \/ \E r \in Requests, fails \in BOOLEAN : InsertEmptyFeed(r, fails)
    \/ \E r \in Requests, fails \in BOOLEAN : RegistrationTrigger(r, fails)
    \/ \E r \in Requests, u \in Users : Request(r, "calculate_feed", u)
    \/ \E r \in Requests, k \in 1..MaxRequests : InvokeAsync(r, k)
    \/ \E r \in Requests : GetSubscriptions(r, FALSE)
    \/ \E r \in Requests : GetRatings(r, FALSE)
    \/ \E r \in Requests : GetUserHistory(r, FALSE)
    \/ \E r \in Requests : GetAllAlbums(r, FALSE)
    \/ \E r \in Requests : GetAllContent(r, FALSE)
    \/ \E r \in Requests : GetFeedAlbums(r)
    \/ \E r \in Requests : StoreFeedGetItem(r, FALSE)
    \/ \E r \in Requests, fails \in BOOLEAN : StoreFeedUpdateItem(r, fails)

SpecRegistration == InitRegistration /\ [][NextRegistration]_vars

\* the seconds a transcription job can be started in
Seconds == 1..MaxRequests

\* a track is uploaded: start_transcription is invoked for it, once or
\* twice at the same time, the transcription service ends the jobs and the
\* queue delivers the monitoring messages
InitTranscription ==
    /\ albums = <<CHOOSE a \in AlbumPool : a.albumId = "AL1">>
    /\ content = SelectSeq(TrackPool, LAMBDA item : item.contentId = "S1")
    /\ NoSignals

\* every call of a service succeeds: the invocations of start_transcription
\* interleave at their calls
NextTranscription ==
    \/ \E r \in Requests, event \in TranscriptionEvents : StartTranscription(r, event)
    \/ \E r \in Requests : CheckExistingTranscription(r, FALSE)
    \/ \E r \in Requests : StoreTranscriptionRecord(r, FALSE)
    \/ \E r \in Requests, timestamp \in Seconds : StartTranscriptionJob(r, timestamp, FALSE)
    \/ \E r \in Requests : UpdateTranscriptionProcessing(r, FALSE)
    \/ \E r \in Requests : SendMonitoringMessage(r, FALSE)
    \/ \E r \in Requests : UpdateTranscriptionFailed(r, FALSE)
    \/ \E k \in 1..MaxRequests, status \in {"COMPLETED", "FAILED"} : JobEnds(k, status)
    \/ \E k \in 1..MaxRequests : MonitorTranscription(k)

SpecTranscription == InitTranscription /\ [][NextTranscription]_vars

(***************************************************************************)
(* Properties                                                              *)
(***************************************************************************)
Ok == run.out.status = "ok"

\* the score the run computed for an album of its result
ComputedScore(album) == run.out.album_scores[album.albumId]

\* C1: the list a scoring run returns is ordered by computed score,
\* descending: of two adjacent albums the earlier one has a score greater
\* than or equal to the later one's (both variants of get_feed_albums)
C1_SortedByScoreDescending ==
    Ok => \A i \in 1..(Len(run.out.feed) - 1) :
              ComputedScore(run.out.feed[i]) >= ComputedScore(run.out.feed[i + 1])

\* a run over three albums whose first-ranked album was not first in the
\* catalog and whose scores are not all equal
C1_Witness ==
    /\ Ok
    /\ Len(run.out.feed) = 3
    /\ run.out.feed[1].albumId # run.inputs.albums[1].albumId
    /\ ComputedScore(run.out.feed[1]) > ComputedScore(run.out.feed[2])
    /\ ComputedScore(run.out.feed[2]) > ComputedScore(run.out.feed[3])

\* the catalog fields of an album record
Identity(album) == <<album.albumId, album.artistId, album.genre>>

\* C2: the returned list is a permutation of the catalog: same length, and
\* every catalog album occurs in it exactly once
C2_FeedIsPermutationOfCatalog ==
    Ok => /\ Len(run.out.feed) = Len(run.inputs.albums)
          /\ \A j \in 1..Len(run.inputs.albums) :
                Cardinality({i \in 1..Len(run.out.feed) :
                    Identity(run.out.feed[i]) = Identity(run.inputs.albums[j])}) = 1

\* a run over three albums two of which have the same score, reordered
C2_Witness ==
    /\ Ok
    /\ Len(run.out.feed) = 3
    /\ \E i \in 1..2 : ComputedScore(run.out.feed[i]) = ComputedScore(run.out.feed[i + 1])
    /\ run.out.feed[1].albumId # run.inputs.albums[1].albumId

\* C3 (as claimed): with no subscriptions, ratings and history a scoring run
\* completes without error for any catalog and every album's score is 0
C3_EmptySignalBaseline ==
    (/\ run # NoRun
     /\ run.inputs.subscriptions = << >>
     /\ run.inputs.ratings = << >>
     /\ run.inputs.history = << >>)
    => /\ Ok
       /\ \A j \in 1..Len(run.inputs.albums) : ComputedScore(run.inputs.albums[j]) = 0

\* the end-to-end scenario of the specification: one ARTIST subscription to
\* A1, a 5-star rating of S1, one 20 days old play of rock by A1, the catalog
\* AL1 (A1, rock, single track S1) and AL2 (A2, jazz) in either order
Scenario ==
    /\ run # NoRun
    /\ Len(run.inputs.subscriptions) = 1
    /\ run.inputs.subscriptions[1].subscriptionType = "ARTIST"
    /\ run.inputs.subscriptions[1].targetId = "A1"
    /\ run.inputs.ratings = <<[songId |-> "S1", stars |-> 5]>>
    /\ Len(run.inputs.history) = 1
    /\ run.inputs.history[1].genre = rock
    /\ run.inputs.history[1].artist = "A1"
    /\ run.inputs.now - FromIsoFormat(run.inputs.history[1].timestamp) = 20 * HoursPerDay
    /\ Len(run.inputs.albums) = 2
    /\ {Identity(run.inputs.albums[j]) : j \in 1..2}
          = {<<"AL1", "A1", rock>>, <<"AL2", "A2", jazz>>}
    /\ Len(run.inputs.content) = 1
    /\ run.inputs.content[1].contentId = "S1"
    /\ run.inputs.content[1].albumId = "AL1"

\* C8: in the end-to-end scenario AL1 scores strictly higher than AL2 and is
\* first in the returned list, for either catalog order
C8_ScenarioRanksAL1First ==
    Scenario => /\ Ok
                /\ run.out.album_scores["AL1"] > run.out.album_scores["AL2"]
                /\ run.out.feed[1].albumId = "AL1"

\* the scenario was scored by calculate_feed with AL2 first in the catalog
C8_Witness ==
    /\ Scenario
    /\ Ok
    /\ run.out.variant = "calculate_feed"
    /\ run.inputs.albums[1].albumId = "AL2"
    /\ run.out.feed[1].albumId = "AL1"

\* the run made by calculate_feed
OkCalculateFeed == Ok /\ run.out.variant = "calculate_feed"

Front(seq) == SubSeq(seq, 1, Len(seq) - 1)

Last(seq) == seq[Len(seq)]

\* the same scoring run without the subscription added last
WithoutLastSubscription ==
    get_feed_albums(run.out.variant, Front(run.inputs.subscriptions), run.inputs.ratings,
                    run.inputs.history, run.inputs.albums, run.inputs.content, run.inputs.now)

\* C4 (as claimed): adding one ARTIST subscription with targetId A raises the
\* score of every album whose artistId is A by exactly 50 and leaves every
\* other album's score unchanged
C4_ArtistSubscriptionAddsFifty ==
    (/\ OkCalculateFeed
     /\ Len(run.inputs.subscriptions) > 0
     /\ Last(run.inputs.subscriptions).subscriptionType = "ARTIST")
    => \A j \in 1..Len(run.inputs.albums) :
          LET album == run.inputs.albums[j]
          IN  ComputedScore(album) =
                 WithoutLastSubscription.album_scores[album.albumId]
                 + (IF album.artistId = Last(run.inputs.subscriptions).targetId
                    THEN 50 * SCALE ELSE 0)

\* two strings are equal up to the case of their letters
EqualIgnoringCase(a, b) ==
    /\ Len(a) = Len(b)
    /\ \A i \in 1..Len(a) :
          \/ a[i] = b[i]
          \/ \E k \in 1..26 : {a[i], b[i]} = {UpperCase[k], LowerCase[k]}

\* C5: a GENRE subscription adds 30 to the score of an album exactly when its
\* targetName equals the album's genre ignoring letter case, and nothing to
\* the albums of any other genre
C5_GenreSubscriptionIgnoresCase ==
    (/\ OkCalculateFeed
     /\ Len(run.inputs.subscriptions) > 0
     /\ Last(run.inputs.subscriptions).subscriptionType = "GENRE")
    => \A j \in 1..Len(run.inputs.albums) :
          LET album == run.inputs.albums[j]
          IN  ComputedScore(album) =
                 WithoutLastSubscription.album_scores[album.albumId]
                 + (IF EqualIgnoringCase(Last(run.inputs.subscriptions).targetName, album.genre)
                    THEN 30 * SCALE ELSE 0)

\* a run after a subscription to the genre "Rock" or "ROCK" over a catalog
\* with a rock album, which gained 30, and a jazz album, which gained nothing
C5_Witness ==
    /\ OkCalculateFeed
    /\ Len(run.inputs.subscriptions) > 0
    /\ Last(run.inputs.subscriptions).subscriptionType = "GENRE"
    /\ Last(run.inputs.subscriptions).targetName # rock
    /\ \E j, k \in 1..Len(run.inputs.albums) :
          /\ run.inputs.albums[j].genre = rock
          /\ ComputedScore(run.inputs.albums[j])
                = WithoutLastSubscription.album_scores[run.inputs.albums[j].albumId] + 30 * SCALE
          /\ run.inputs.albums[k].genre = jazz
          /\ ComputedScore(run.inputs.albums[k])
                = WithoutLastSubscription.album_scores[run.inputs.albums[k].albumId]

\* C6 (as claimed): the subscription boost of an album is 50 times the number
\* of ARTIST subscriptions to its artist plus 30 times the number of GENRE
\* subscriptions to its genre
C6_BoostsAccumulate ==
    OkCalculateFeed
    => \A j \in 1..Len(run.inputs.albums) :
          LET album == run.inputs.albums[j]
              subs == run.inputs.subscriptions
          IN  DictGet(run.out.locals.subscription_boost, album.albumId, 0) =
                 50 * Cardinality({i \in 1..Len(subs) :
                         /\ subs[i].subscriptionType = "ARTIST"
                         /\ subs[i].targetId = album.artistId})
                 + 30 * Cardinality({i \in 1..Len(subs) :
                         /\ subs[i].subscriptionType = "GENRE"
                         /\ EqualIgnoringCase(subs[i].targetName, album.genre)})

\* the places in the content index of the rated tracks of an album
RatedTracks(album) ==
    {k \in 1..Len(run.inputs.content) :
        /\ run.inputs.content[k].albumId = album.albumId
        /\ \E i \in 1..Len(run.inputs.ratings) :
              run.inputs.ratings[i].songId = run.inputs.content[k].contentId}

\* the stars the user gave a track
StarsOf(k) ==
    LET i == CHOOSE i \in 1..Len(run.inputs.ratings) :
                 run.inputs.ratings[i].songId = run.inputs.content[k].contentId
    IN  run.inputs.ratings[i].stars

RECURSIVE TotalStars(_)
TotalStars(tracks) ==
    IF tracks = {} THEN 0
    ELSE LET k == CHOOSE k \in tracks : TRUE
         IN  StarsOf(k) + TotalStars(tracks \ {k})

\* the album-rating term the specification defines, times SCALE
ExpectedAlbumTerm(album) ==
    LET n == Cardinality(RatedTracks(album))
        total == TotalStars(RatedTracks(album))
    IN  IF n = 0 THEN 0
        ELSE IF total >= 4 * n THEN ((total - 3 * n) * 20 * SCALE) \div n
        ELSE IF total <= 2 * n THEN 0 - (((3 * n - total) * 15 * SCALE) \div n)
        ELSE 0

\* C7 (as claimed): for every album of the catalog, whatever its position,
\* the album-rating term of its score is computed from the mean of the stars
\* of its rated tracks, and is 0 for an album with no rated track
C7_AlbumRatingTermOfEveryAlbum ==
    OkCalculateFeed
    => \A j \in 1..Len(run.inputs.albums) :
          AlbumRatingTerm(run.out.locals.album_ratings, run.inputs.albums[j].albumId)
             = ExpectedAlbumTerm(run.inputs.albums[j])

\* the places of the history entries within the 30 days before time t
InWindow(t) ==
    {i \in 1..Len(run.inputs.history) :
        /\ FromIsoFormat(run.inputs.history[i].timestamp) >= t - RecentDays * HoursPerDay
        /\ FromIsoFormat(run.inputs.history[i].timestamp) <= t}

\* the same scoring run made at time t
RunAt(t) ==
    get_feed_albums(run.out.variant, run.inputs.subscriptions, run.inputs.ratings,
                    run.inputs.history, run.inputs.albums, run.inputs.content, t)

SameResult(other) ==
    /\ other.album_scores = run.out.album_scores
    /\ [i \in 1..Len(other.feed) |-> other.feed[i].albumId]
          = [i \in 1..Len(run.out.feed) |-> run.out.feed[i].albumId]

\* C9 (as claimed): a second run on the same subscriptions, ratings, history,
\* catalog and content index gives the same scores and the same order,
\* whatever the time it is made at
C9_DeterminismAtAnyTime ==
    Ok => \A t \in Instants : t >= run.inputs.now => SameResult(RunAt(t))

\* C9 (amended): a second run on the same inputs gives the same scores and
\* the same order when it is made at the same hour of day and every history
\* entry is within the 30 days before both runs or before neither
C9_DeterminismSameHourSameWindow ==
    Ok => \A t \in Instants :
             (/\ t >= run.inputs.now
              /\ Hour(t) = Hour(run.inputs.now)
              /\ InWindow(t) = InWindow(run.inputs.now))
             => SameResult(RunAt(t))

\* a run with a play in its recency window, and a later time of the same
\* hour of day at which that play is still in the window
C9_Witness ==
    /\ Ok
    /\ InWindow(run.inputs.now) # {}
    /\ \E j \in 1..Len(run.inputs.albums) : ComputedScore(run.inputs.albums[j]) > 0
    /\ \E t \in Instants :
          /\ t > run.inputs.now
          /\ Hour(t) = Hour(run.inputs.now)
          /\ InWindow(t) = InWindow(run.inputs.now)

\* C10: after the history pass genreFrequency and artistFrequency count all
\* history entries of a genre or artist, and recentGenreFrequency and
\* recentArtistFrequency are twice the number of its entries within the 30
\* days before the scoring time
C10_RecencyWeighting ==
    Ok => LET c == run.out.locals.counters
              h == run.inputs.history
              recent == InWindow(run.inputs.now)
          IN  /\ \A g \in {rock, jazz} :
                    /\ DictGet(c.genre_frequency, g, 0)
                          = Cardinality({i \in 1..Len(h) : h[i].genre = g})
                    /\ DictGet(c.recent_genre_frequency, g, 0)
                          = 2 * Cardinality({i \in recent : h[i].genre = g})
              /\ \A a \in {"A1", "A2"} :
                    /\ DictGet(c.artist_frequency, a, 0)
                          = Cardinality({i \in 1..Len(h) : h[i].artist = a})
                    /\ DictGet(c.recent_artist_frequency, a, 0)
                          = 2 * Cardinality({i \in recent : h[i].artist = a})

\* a run over two plays of one genre, one older than 30 days and one inside
\* the window: the total counter is 2 and the recent counter is 2
C10_Witness ==
    /\ Ok
    /\ Len(run.inputs.history) = 2
    /\ run.inputs.history[1].genre = run.inputs.history[2].genre
    /\ InWindow(run.inputs.now) = {2}
    /\ run.out.locals.counters.genre_frequency[run.inputs.history[1].genre] = 2
    /\ run.out.locals.counters.recent_genre_frequency[run.inputs.history[1].genre] = 2

(***************************************************************************)
(* Properties of the request handlers                                      *)
(***************************************************************************)
\* C11: in every state reachable by interleaving create_rating requests,
\* the Ratings table holds at most one row per (username, songId)
C11_AtMostOneRatingPerUserAndSong ==
    \A i, j \in 1..Len(ratingsTable) :
        (/\ ratingsTable[i].username = ratingsTable[j].username
         /\ ratingsTable[i].songId = ratingsTable[j].songId) => i = j

\* the request r is a run of one of the two feed lambdas
FeedRun(r) == requests[r].handler \in {"calculate_feed", "get_feed"}

\* the five signal retrievals of a run
Retrievals ==
    {"get_subscriptions", "get_ratings", "get_user_history", "get_all_albums",
     "_get_all_content"}

\* C12: a run one of whose five signal retrievals failed goes no further than
\* the scoring call and ends with an error response: status 500, no ranked
\* list in the body, no feed written
C12_FailedRetrievalAbortsRun ==
    \A r \in Requests :
        (FeedRun(r) /\ requests[r].failed \in Retrievals) =>
            /\ requests[r].pc \in {"get_feed_albums", "done"}
            /\ ~ requests[r].stored
            /\ requests[r].pc = "done" =>
                  (requests[r].statusCode = 500 /\ requests[r].body.kind = "error")

\* the rows of the Ratings table whose username equals u, as get_ratings
\* returns rows
OwnRatings(u) ==
    LET Items == SelectSeq(ratingsTable, LAMBDA item : item.username = u)
    IN  [i \in 1..Len(Items) |-> transform_rating_for_response(Items[i])]

\* the run r has got its ratings
HasRatings(r) ==
    /\ FeedRun(r)
    /\ requests[r].pc \notin {"get_subscriptions", "get_ratings"}
    /\ requests[r].failed \notin {"get_subscriptions", "get_ratings"}

\* C16: the ratings a run of user U collects are exactly the rows of the
\* Ratings table whose username equals U, none of another user V, whether
\* or not U occurs in V
C16_RatingsOfTheUserOnly ==
    \A r \in Requests : HasRatings(r) => requests[r].ratings = OwnRatings(requests[r].username)

\* the run r was started by trigger_feed_calculation
Triggered(r) ==
    /\ requests[r].handler = "calculate_feed"
    /\ "requestContext" \notin DOMAIN requests[r].event

\* C13: a run triggered for user U (by the registration of U or by a history
\* update of U) that has completed was made for U, and U's feed record holds
\* the ranked list of a run made for U
C13_TriggeredRunStoresFeedOfUser ==
    \A r \in Requests :
        (Triggered(r) /\ requests[r].pc = "done") =>
            LET U == requests[r].event.username
            IN  /\ requests[r].username = U
                /\ \E q \in Requests :
                      /\ requests[q].handler = "calculate_feed"
                      /\ requests[q].username = U
                      /\ requests[q].stored
                      /\ feedTable[U].feed = requests[q].out.feed

\* the run r has written its list to the feed record of u
Wrote(r, u) ==
    /\ requests[r].handler = "calculate_feed"
    /\ requests[r].stored
    /\ requests[r].username = u

\* C14: under any interleaving of calculate_feed runs, a user's stored feed
\* is the empty list of registration or the complete list returned by the
\* scoring call of one run that has written for that user
C14_StoredFeedIsOneRunsList ==
    \A u \in Users :
        \/ feedTable[u].feed = << >>
        \/ \E r \in Requests : Wrote(r, u) /\ feedTable[u].feed = requests[r].out.feed

\* two runs with different lists have both written the feed record of one
\* user
C14_Witness ==
    \E u \in Users, r, q \in Requests :
        /\ Wrote(r, u)
        /\ Wrote(q, u)
        /\ requests[r].out.feed # requests[q].out.feed
        /\ feedTable[u].feed = requests[q].out.feed

\* the requests that append to the history of u in the step at hand
Appending(u) ==
    {r \in Requests : /\ requests[r].handler = "add_to_history"
                      /\ requests[r].username = u
                      /\ requests[r].pc = "update_item"
                      /\ requests'[r].pc # "update_item"}

IsPrefix(s, t) == Len(s) <= Len(t) /\ SubSeq(t, 1, Len(s)) = s

\* C15: every step leaves each user's history as a prefix of the new one,
\* which is longer by one entry for each add_to_history request that runs
\* its append in the step, that request's entry
C15_HistoryOnlyGrows ==
    [][\A u \in Users :
          LET old == usersTable[u].llisteningHistory
              new == usersTable'[u].llisteningHistory
          IN  /\ IsPrefix(old, new)
              /\ Len(new) = Len(old) + Cardinality(Appending(u))
              /\ \A r \in Appending(u) : new[Len(new)] = requests[r].history_item]_vars

\* two requests of one user, in progress at the same time, have both
\* appended
C15_Witness ==
    \E r, q \in Requests :
        /\ r # q
        /\ requests[r].handler = "add_to_history" /\ requests[r].appended
        /\ requests[q].handler = "add_to_history" /\ requests[q].appended
        /\ requests[r].username = requests[q].username
        /\ requests[r].pc = "trigger"
        /\ requests[q].pc = "trigger"
        /\ Len(usersTable[requests[r].username].llisteningHistory) >= 2

\* C19: every row of the Ratings table has stars in 1..5, and a completed
\* create_rating request with stars outside 1..5 was answered with an error
\* and has stored no row
C19_StarsBetweenOneAndFive ==
    /\ \A i \in 1..Len(ratingsTable) : ratingsTable[i].stars \in MinStars..MaxStars
    /\ \A r \in Requests :
          (/\ requests[r].handler = "create_rating"
           /\ requests[r].pc = "done"
           /\ requests[r].event.hasBody
           /\ requests[r].event.stars \notin MinStars..MaxStars) =>
              /\ requests[r].statusCode >= 400
              /\ \A i \in 1..Len(ratingsTable) : ratingsTable[i].ratingId # r

\* the genre-based terms of the score of an album: the rating term, the hour
\* term, the trend term and the aversion term of its genre
GenreTerms(album) ==
    LET l == run.out.locals
    IN  <<GenreRatingTerm(l.avg_genre_ratings, album.genre),
          HourTerm(l.counters, album.genre, l.current_hour),
          TrendTerm(l.counters, album.genre),
          AversionTerm(l.avg_genre_ratings, album.genre)>>

\* the artist-based terms: the rating term of its artist and the boost of
\* the ARTIST subscriptions
ArtistTerms(album) ==
    LET l == run.out.locals
        subs == run.inputs.subscriptions
        genre_boost ==
            GenreBoost * Cardinality({i \in 1..Len(subs) :
                                         /\ subs[i].subscriptionType = "GENRE"
                                         /\ SubscriptionMatches(subs[i], album)})
    IN  <<ArtistRatingTerm(l.avg_artist_ratings, album.artistId),
          DictGet(l.subscription_boost, album.albumId, 0) - genre_boost>>

\* C17: a run over a catalog with an album without genre or without artist
\* completes with a ranked list, in which an album without genre got zero
\* from every genre-based term and an album without artist zero from every
\* artist-based term
C17_MalformedAlbumsAreTolerated ==
    (/\ run.out.status # "none"
     /\ \E j \in 1..Len(run.inputs.albums) :
           \/ run.inputs.albums[j].genre = NoneStr
           \/ run.inputs.albums[j].artistId = None) =>
        /\ Ok
        /\ \A j \in 1..Len(run.inputs.albums) :
              LET album == run.inputs.albums[j]
              IN  /\ album.genre = NoneStr => GenreTerms(album) = <<0, 0, 0, 0>>
                  /\ album.artistId = None => ArtistTerms(album) = <<0, 0>>

\* C18: a call of get_feed_albums leaves the albums passed to it as they
\* were (the model's get_feed_albums only reads its other arguments)
C18_ScoringLeavesInputsUnchanged ==
    run.out.status # "none" => run.out.albums = run.inputs.albums

\* C20: every album of the returned list has a stats.score field, whose
\* value is the score the album was ranked by
C20_ReturnedAlbumsCarryTheirScore ==
    Ok => \A k \in 1..Len(run.out.feed) :
             LET album == run.out.feed[k]
             IN  /\ "stats" \in DOMAIN album
                 /\ album.stats.score = ComputedScore(album)

(***************************************************************************)
(* Properties of the terms of the score                                    *)
(***************************************************************************)
\* the rated tracks of the albums of the catalog that have the value v in
\* the given field (genre or artistId)
RatedTracksWith(field, v) ==
    UNION {RatedTracks(run.inputs.albums[j]) :
              j \in {i \in 1..Len(run.inputs.albums) : run.inputs.albums[i][field] = v}}

\* the term the specification defines for a mean of total / n stars, times
\* SCALE: (mean - 3) * up for a mean >= 3.5, -(3 - mean) * down for a mean
\* <= 2.5, otherwise 0
ExpectedAffinityTerm(tracks, up, down) ==
    LET n == Cardinality(tracks)
        total == TotalStars(tracks)
    IN  IF n = 0 THEN 0
        ELSE IF 2 * total >= 7 * n THEN ((total - 3 * n) * up * SCALE) \div n
        ELSE IF 2 * total <= 5 * n THEN 0 - (((3 * n - total) * down * SCALE) \div n)
        ELSE 0

\* C21: the genre-rating term of every album is computed from the mean of
\* the stars of all rated tracks of all albums of its genre, with 15 above
\* and 10 below, and is 0 when the genre has no rated track
C21_GenreRatingTerm ==
    Ok => \A j \in 1..Len(run.inputs.albums) :
             LET album == run.inputs.albums[j]
             IN  GenreRatingTerm(run.out.locals.avg_genre_ratings, album.genre)
                    = ExpectedAffinityTerm(RatedTracksWith("genre", album.genre), 15, 10)

\* C22: the artist-rating term of every album is computed from the mean of
\* the stars of all rated tracks of all albums of its artist, with 25 above
\* and 15 below, and is 0 when the artist has no rated track
C22_ArtistRatingTerm ==
    Ok => \A j \in 1..Len(run.inputs.albums) :
             LET album == run.inputs.albums[j]
             IN  ArtistRatingTerm(run.out.locals.avg_artist_ratings, album.artistId)
                    = ExpectedAffinityTerm(RatedTracksWith("artistId", album.artistId), 25, 15)

\* the number of entries of the history, among the given places, that have
\* the value v in the given field (genre or artist)
PlaysOf(field, v, places) ==
    Cardinality({i \in places : run.inputs.history[i][field] = v})

\* the places of the history entries made at the hour of day of the run
AtCurrentHour ==
    {i \in 1..Len(run.inputs.history) :
        Hour(FromIsoFormat(run.inputs.history[i].timestamp)) = Hour(run.inputs.now)}

\* all plays plus twice the plays within the 30 days before the run
TotalPlays(field, v) ==
    PlaysOf(field, v, 1..Len(run.inputs.history))
       + RecentWeight * PlaysOf(field, v, InWindow(run.inputs.now))

\* C23: for every album the contribution of the history is
\* min(genre plays * 2, 30) + min(artist plays * 3, 40), plus
\* min(plays of the genre at the current hour * 5, 25); each part is
\* between 0 and its cap, for any length of the history
C23_FrequencyContributionIsCapped ==
    Ok => \A j \in 1..Len(run.inputs.albums) :
             LET album == run.inputs.albums[j]
                 c == run.out.locals.counters
                 genrePart == Min(TotalPlays("genre", album.genre) * 2, 30)
                 artistPart == Min(TotalPlays("artist", album.artistId) * 3, 40)
                 hourPart == Min(PlaysOf("genre", album.genre, AtCurrentHour) * 5, 25)
             IN  /\ FrequencyTerm(c, album.genre, album.artistId)
                       = SCALE * (genrePart + artistPart)
                 /\ HourTerm(c, album.genre, run.out.locals.current_hour) = SCALE * hourPart
                 /\ FrequencyTerm(c, album.genre, album.artistId) \in 0..(SCALE * (30 + 40))
                 /\ HourTerm(c, album.genre, run.out.locals.current_hour) \in 0..(SCALE * 25)

\* a run over a history long enough to exceed all three caps for an album,
\* whose contribution is 30 + 40 + 25
C23_Witness ==
    /\ Ok
    /\ \E j \in 1..Len(run.inputs.albums) :
          LET album == run.inputs.albums[j]
              c == run.out.locals.counters
          IN  /\ TotalPlays("genre", album.genre) * 2 > 30
              /\ TotalPlays("artist", album.artistId) * 3 > 40
              /\ PlaysOf("genre", album.genre, AtCurrentHour) * 5 > 25
              /\ FrequencyTerm(c, album.genre, album.artistId)
                    + HourTerm(c, album.genre, run.out.locals.current_hour)
                    = SCALE * (30 + 40 + 25)

\* C24: an album receives the trend bonus of 15 exactly when the recent
\* counter of its genre (twice its plays of the last 30 days) is more than
\* 0.3 times the number of all plays of its genre; an album whose genre was
\* never played receives none
C24_TrendBonus ==
    Ok => \A j \in 1..Len(run.inputs.albums) :
             LET genre == run.inputs.albums[j].genre
                 all == PlaysOf("genre", genre, 1..Len(run.inputs.history))
                 recent == PlaysOf("genre", genre, InWindow(run.inputs.now))
                 trend == TrendTerm(run.out.locals.counters, genre)
             IN  /\ trend = IF 10 * RecentWeight * recent > 3 * all THEN SCALE * 15 ELSE 0
                 /\ all = 0 => trend = 0

\* a run over a catalog with an album of a genre played once in the last 30
\* days and five times before, which receives the bonus, and an album of a
\* genre never played, which receives none
C24_Witness ==
    /\ Ok
    /\ \E j, k \in 1..Len(run.inputs.albums) :
          LET played == run.inputs.albums[j].genre
              other == run.inputs.albums[k].genre
          IN  /\ PlaysOf("genre", played, InWindow(run.inputs.now)) = 1
              /\ PlaysOf("genre", played, 1..Len(run.inputs.history)) = 6
              /\ TrendTerm(run.out.locals.counters, played) = SCALE * 15
              /\ PlaysOf("genre", other, 1..Len(run.inputs.history)) = 0
              /\ TrendTerm(run.out.locals.counters, other) = 0

\* the sum of the terms of an album in the run, before any floor or penalty
RawScore(album) ==
    LET l == run.out.locals
    IN  SCALE * DictGet(l.subscription_boost, album.albumId, 0)
           + AlbumRatingTerm(l.album_ratings, album.albumId)
           + GenreRatingTerm(l.avg_genre_ratings, album.genre)
           + ArtistRatingTerm(l.avg_artist_ratings, album.artistId)
           + FrequencyTerm(l.counters, album.genre, album.artistId)
           + HourTerm(l.counters, album.genre, l.current_hour)
           + TrendTerm(l.counters, album.genre)
           + AversionTerm(l.avg_genre_ratings, album.genre)

\* min(total genre plays * 0.5, 10), times SCALE, from the history of the run
DiversityPenalty(album) ==
    Min((TotalPlays("genre", album.genre) * SCALE) \div 2, 10 * SCALE)

\* the scores the calculate_feed variant gives on the inputs of the run
CalculateFeedScores ==
    get_feed_albums("calculate_feed", run.inputs.subscriptions, run.inputs.ratings,
                    run.inputs.history, run.inputs.albums, run.inputs.content,
                    run.inputs.now).album_scores

\* C25: the get_feed variant ranks every album by
\* max(raw score - min(total genre plays * 0.5, 10), 0), which is never
\* negative; the calculate_feed variant ranks by the raw score and attaches
\* it, without floor or penalty
C25_FloorAndPenaltyInGetFeedOnly ==
    Ok => \A j \in 1..Len(run.inputs.albums) :
             LET album == run.inputs.albums[j]
             IN  IF run.out.variant = "get_feed"
                 THEN /\ ComputedScore(album) = Max(RawScore(album) - DiversityPenalty(album), 0)
                      /\ ComputedScore(album) >= 0
                 ELSE /\ ComputedScore(album) = RawScore(album)
                      /\ run.out.albums[j].stats.score = RawScore(album)

\* a get_feed run in which an album pays a diversity penalty, on inputs for
\* which the calculate_feed variant gives that album a negative score
C25_Witness ==
    /\ Ok
    /\ run.out.variant = "get_feed"
    /\ \E j \in 1..Len(run.inputs.albums) :
          LET album == run.inputs.albums[j]
          IN  /\ DiversityPenalty(album) > 0
              /\ ComputedScore(album) = RawScore(album) - DiversityPenalty(album)
              /\ CalculateFeedScores[album.albumId] < 0

(***************************************************************************)
(* Properties of the handlers that answer before the work is done          *)
(***************************************************************************)
\* C26: a create_subscription request is answered with 201 only if its
\* subscription record is in the Subscriptions table; a request that
\* duplicates a stored subscription of the same user, target name and type
\* is answered with an error
C26_SuccessOnlyIfSubscriptionStored ==
    \A r \in Requests :
        (/\ requests[r].handler = "create_subscription"
         /\ requests[r].pc = "done"
         /\ requests[r].statusCode = 201)
        => \E i \in 1..Len(subscriptionsTable) : subscriptionsTable[i].subscriptionId = r

\* C27: a request of a user who is no administrator is answered with 201,
\* after triggering a scoring run, only if it has appended its entry to the
\* history of the user
C27_SuccessOnlyIfEntryAppended ==
    \A r \in Requests :
        (/\ requests[r].handler = "add_to_history"
         /\ requests[r].pc = "done"
         /\ ~ is_admin_user(requests[r].event)
         /\ requests[r].statusCode = 201)
        => requests[r].appended

\* a scoring run has been triggered by a registration of the user u: its
\* invocation is queued, or delivered to a run
TriggeredByRegistration(u) ==
    \/ \E k \in 1..Len(invocations) :
          invocations[k].action = "registration" /\ invocations[k].username = u
    \/ \E r \in Requests :
          /\ Triggered(r)
          /\ requests[r].event.action = "registration"
          /\ requests[r].event.username = u

\* C28: whenever a scoring run is triggered by the registration of a user,
\* queued or running, the profile record and the feed record of the user are
\* written; a registration answered with 201 has written both and triggered
\* the run; and a registration whose write of either record failed has
\* triggered no run
C28_RecordsWrittenBeforeTrigger ==
    /\ \A u \in Users :
          TriggeredByRegistration(u) => usersTable[u].exists /\ feedTable[u].exists
    /\ \A r \in Requests :
          requests[r].handler = "registration" =>
             /\ requests[r].statusCode = 201 =>
                   /\ requests[r].triggered
                   /\ usersTable[requests[r].event.username].exists
                   /\ feedTable[requests[r].event.username].exists
             /\ requests[r].failed \in {"store_user_profile", "insert_empty_feed"} =>
                   /\ ~ requests[r].triggered
                   /\ ~ TriggeredByRegistration(requests[r].event.username)

\* a registration answered with 201 whose triggered run has been delivered
\* and has come to its end
C28_Witness ==
    \E r, q \in Requests :
        /\ requests[r].handler = "registration"
        /\ requests[r].statusCode = 201
        /\ Triggered(q)
        /\ requests[q].event.action = "registration"
        /\ requests[q].event.username = requests[r].event.username
        /\ requests[q].pc = "done"

(***************************************************************************)
(* Properties of the transcription                                         *)
(***************************************************************************)
\* the monitoring message of the job is still to come or to be delivered: it
\* is in the queue, or the request that started the job stands before
\* sending it or before marking the record as failed
MonitoringPending(job_name) ==
    \/ \E k \in 1..Len(transcriptionQueue) : transcriptionQueue[k].jobName = job_name
    \/ \E r \in Requests :
          /\ requests[r].handler = "start_transcription"
          /\ requests[r].pc \in {"send_message", "failed"}
          /\ requests[r].job_name = job_name

\* C29: a record is not left in PROCESSING once its job has ended and the
\* monitoring message of the job has been delivered to monitor_transcription
C29_EndedJobLeavesProcessing ==
    \A c \in Uploads :
        LET item == transcriptionsTable[c]
        IN  (/\ item.exists
             /\ item.status = "PROCESSING"
             /\ item.jobName # NoJob
             /\ check_transcription_job(item.jobName) \in {"COMPLETED", "FAILED"})
            => MonitoringPending(item.jobName)

\* C30: of the transcription jobs started for one contentId, every one after
\* the first was started by an invocation that had found the record FAILED
C30_SecondJobOnlyAsRetry ==
    \A i, j \in 1..Len(transcriptionJobs) :
        (i < j /\ transcriptionJobs[i].contentId = transcriptionJobs[j].contentId)
        => transcriptionJobs[j].found = "FAILED"

====
